---- MODULE Spec2Model ----
(***************************************************************************)
(* QueryOS search engine: FileSearcher (src/utils/file_searcher.py) and    *)
(* Spinner (src/utils/loading_spinners.py).                                *)
(*                                                                         *)
(* Strings are sequences of one-character strings, so that lower(),        *)
(* split(), `in`, startswith() and endswith() are computed, not assumed.   *)
(* Scores are kept in tenths (15.0 is 150, 0.1 is 1): every weight of      *)
(* _calculate_relevance is a multiple of 0.1 and the sums stay exact.      *)
(***************************************************************************)
EXTENDS Integers, Sequences, FiniteSets, TLC

VARIABLES
    \* ---- pure-function harness (NameMatcher) ----
    mpc,        \* "idle" | "in" | "out"
    pat,        \* pattern handed to _matches_criteria
    cand,       \* candidate entry name
    mres,       \* result of _matches_criteria(cand, pat, '')
    fres,       \* result of _fuzzy_match(pat, lower(cand))
    \* ---- pure-function harness (RelevanceScorer) ----
    kpc,        \* "idle" | "in" | "out"
    ent1,       \* an entry handed to _calculate_relevance
    ent2,       \* a second entry, scored against the same query
    score1,     \* outcome of _calculate_relevance(ent1, query)
    score2,     \* outcome of _calculate_relevance(ent2, query)
    \* ---- FileSearcher ----
    mode,       \* "idle" | "search_files" | "direct" (_search_in_directory alone)
    query,      \* search_params
    faults,     \* which system calls fail during this call
    aged,       \* entries a day older (time.time()) than when the first call began
    calls,      \* search_files calls made so far
    pc,         \* position of the calling thread
    drives_to_search,   \* drive letters, in order
    di,         \* i + 1 of the drive loop
    directory,  \* the directory argument of _search_in_directory (a node)
    results,    \* the accumulator
    stack,      \* directories os.walk has still to yield, next one last
    root,       \* the directory os.walk yielded last
    dirs,       \* its dirs list (pruned in place)
    files,      \* its files list
    idx,        \* position in the folder loop or the file loop
    exc,        \* an exception is propagating out of search_files
    returned,   \* the list search_files returned
    sbusy,      \* spinner.busy of the search spinner
    slabel,     \* which message spinner.text holds
    drive_results,  \* the list local to _search_in_directory_with_count
    items_scanned,  \* its counter of entries looked at
    \* ---- history (never read by the program) ----
    examined,   \* entries handed to _matches_criteria
    visited,    \* directories os.walk yielded
    walked,     \* roots _search_in_directory was called on
    raisedAt,   \* entries whose exists() raised
    collected,  \* the accumulator as it was before sorting
    failedAt,   \* (root, len(results)) whenever a walk ended in a handler
    keys,       \* the key list.sort computed for each entry
    first,      \* what the first search_files call returned
    firstCollected, \* the accumulator of the first call before sorting
    \* ---- one Spinner object, its caller and its reporter threads ----
    spc,        \* the calling thread: "idle" | "ready" | "joining"
    busy,       \* self.busy
    textlen,    \* len(self.text)
    thread,     \* self.thread: the reporter created last, 0 for None
    tpc,        \* position of each reporter thread in spinner_task
    ops,        \* calls the caller has made
    stopped,    \* history: stop() cleared busy and has returned, no start() since
    printed,    \* history: the caller wrote to stdout after that stop()
    garbled,    \* history: a reporter wrote to stdout after that write
    line,       \* history: columns of the status line that hold frame characters
    lateUpdate, \* history: update_text was called on a spinner that was not running
    lateFrames, \* history: frames each reporter wrote since stop() last cleared busy
    clears,     \* history: clear sequences each reporter wrote
    \* ---- the reporter threads of one search_files call ----
    rpc,        \* position of the calling thread
    rhint,      \* the drive hint: "none" | "found" | "missing" among the drives
    rbusy,      \* busy flag of each Spinner object the call creates
    rtpc        \* position of each Spinner's reporter thread

mvars == <<mpc, pat, cand, mres, fres>>
kvars == <<kpc, ent1, ent2, score1, score2>>
rvars == <<rpc, rhint, rbusy, rtpc>>
svars == <<mode, query, faults, aged, calls, pc, drives_to_search, di, directory, results, stack,
           root, dirs, files, idx, exc, returned, sbusy, slabel, drive_results,
           items_scanned>>
hvars == <<examined, visited, walked, raisedAt, collected, failedAt, keys, first,
           firstCollected>>
qvars == <<mode, query, faults, aged, calls, first, firstCollected>>
cvars == <<qvars, drive_results, items_scanned>>
pvars == <<spc, busy, textlen, thread, tpc, ops, stopped, printed, garbled, line,
           lateUpdate, lateFrames, clears>>
nonsearch == <<mvars, pvars, kvars, rvars>>
vars == <<mvars, svars, hvars, pvars, kvars, rvars>>

(***************************************************************************)
(* Characters and strings                                                  *)
(***************************************************************************)
UpperChars == <<"A","B","C","D","E","F","G","H","I","J","K","L","M",
                "N","O","P","Q","R","S","T","U","V","W","X","Y","Z">>
LowerChars == <<"a","b","c","d","e","f","g","h","i","j","k","l","m",
                "n","o","p","q","r","s","t","u","v","w","x","y","z">>

\* str.lower() on one character
LowerChar(c) ==
    IF \E i \in 1..Len(UpperChars) : UpperChars[i] = c
    THEN LowerChars[CHOOSE i \in 1..Len(UpperChars) : UpperChars[i] = c]
    ELSE c

\* str.upper() on one character
UpperChar(c) ==
    IF \E i \in 1..Len(LowerChars) : LowerChars[i] = c
    THEN UpperChars[CHOOSE i \in 1..Len(LowerChars) : LowerChars[i] = c]
    ELSE c

Lower(s) == [i \in 1..Len(s) |-> LowerChar(s[i])]
Upper(s) == [i \in 1..Len(s) |-> UpperChar(s[i])]

\* Python's `sub in text`
Contains(text, sub) ==
    \E i \in 0..(Len(text) - Len(sub)) :
        \A k \in 1..Len(sub) : text[i + k] = sub[k]

\* str.startswith / str.endswith
StartsWith(text, pre) ==
    /\ Len(pre) <= Len(text)
    /\ \A k \in 1..Len(pre) : text[k] = pre[k]

EndsWith(text, suf) ==
    /\ Len(suf) <= Len(text)
    /\ \A k \in 1..Len(suf) : text[Len(text) - Len(suf) + k] = suf[k]

\* str.split(): maximal runs of non-blank characters, in order
RECURSIVE SplitFrom(_, _, _)
SplitFrom(s, i, word) ==
    IF i > Len(s)
    THEN IF word = <<>> THEN <<>> ELSE <<word>>
    ELSE IF s[i] = " "
         THEN IF word = <<>> THEN SplitFrom(s, i + 1, <<>>)
              ELSE <<word>> \o SplitFrom(s, i + 1, <<>>)
         ELSE SplitFrom(s, i + 1, Append(word, s[i]))

Split(s) == SplitFrom(s, 1, <<>>)

(***************************************************************************)
(* NameMatcher: _matches_criteria, _fuzzy_match and helpers                *)
(***************************************************************************)
\* The similarity threshold 0.8 of _fuzzy_match's call, as the ratio 4/5.
ThresholdNum == 4
ThresholdDen == 5
\* _fuzzy_match tries the windowed similarity only for len(pattern) > 3.
SimilarityMinLen == 3

RECURSIVE remove_duplicate_chars_from(_, _)
remove_duplicate_chars_from(text, i) ==
    IF i > Len(text) THEN <<>>
    ELSE IF i > 1 /\ text[i] = text[i - 1]
         THEN remove_duplicate_chars_from(text, i + 1)
         ELSE <<text[i]>> \o remove_duplicate_chars_from(text, i + 1)

\* remove_duplicate_chars that only drops a repeat of the first character
remove_duplicate_chars_first_only(text) ==
    IF Len(text) >= 2 /\ text[1] = text[2] THEN Tail(text) ELSE text

remove_duplicate_chars(text) == remove_duplicate_chars_from(text, 1)

\* matches = sum(1 for a, b in zip(pattern, substring) if a == b)
WindowMatches(pattern, text, i) ==
    Cardinality({k \in 1..Len(pattern) : text[i + k] = pattern[k]})

\* similarity_match that wants more than the threshold
similarity_match_strict(pattern, text) ==
    \E i \in 0..(Len(text) - Len(pattern)) :
        ThresholdDen * WindowMatches(pattern, text, i) > ThresholdNum * Len(pattern)

\* similarity_match content with three quarters of the positions
similarity_match_lenient(pattern, text) ==
    \E i \in 0..(Len(text) - Len(pattern)) :
        4 * WindowMatches(pattern, text, i) >= 3 * Len(pattern)

similarity_match(pattern, text) ==
    \E i \in 0..(Len(text) - Len(pattern)) :
        ThresholdDen * WindowMatches(pattern, text, i) >= ThresholdNum * Len(pattern)

\* fuzzy_match without lower-casing the pattern
fuzzy_match_case_sensitive(pattern, text) ==
    LET text_lower == Lower(text)
        pattern_dedupe == remove_duplicate_chars(pattern)
    IN  IF Contains(text_lower, pattern) THEN TRUE
        ELSE IF Contains(text_lower, pattern_dedupe) THEN TRUE
        ELSE IF Len(pattern) > SimilarityMinLen
             THEN similarity_match(pattern, text_lower)
             ELSE FALSE

fuzzy_match(pattern, text) ==
    LET pattern_lower == Lower(pattern)
        text_lower    == Lower(text)
        pattern_dedupe == remove_duplicate_chars(pattern_lower)
    IN  IF Contains(text_lower, pattern_lower) THEN TRUE
        ELSE IF Contains(text_lower, pattern_dedupe) THEN TRUE
        ELSE IF Len(pattern_lower) > SimilarityMinLen
             THEN similarity_match(pattern_lower, text_lower)
             ELSE FALSE

\* matches_criteria where one matching keyword is enough
matches_criteria_any_keyword(filename, pattern, file_type, is_folder) ==
    LET filename_lower == Lower(filename)
        keywords == Split(pattern)
        nameOk ==
            IF pattern # <<>>
            THEN IF \E i \in 1..Len(pattern) : pattern[i] = " "
                 THEN \E k \in 1..Len(keywords) : fuzzy_match(keywords[k], filename_lower)
                 ELSE fuzzy_match(pattern, filename_lower)
            ELSE TRUE
        typeOk ==
            IF file_type # <<>> /\ ~is_folder
            THEN EndsWith(filename_lower, <<".">> \o file_type)
            ELSE TRUE
    IN  nameOk /\ typeOk

\* matches_criteria without the file type test (lines 304-307)
matches_criteria_type_unchecked(filename, pattern, file_type, is_folder) ==
    LET filename_lower == Lower(filename)
        keywords == Split(pattern)
    IN  IF pattern # <<>>
        THEN IF \E i \in 1..Len(pattern) : pattern[i] = " "
             THEN \A k \in 1..Len(keywords) : fuzzy_match(keywords[k], filename_lower)
             ELSE fuzzy_match(pattern, filename_lower)
        ELSE TRUE

matches_criteria(filename, pattern, file_type, is_folder) ==
    LET filename_lower == Lower(filename)
        keywords == Split(pattern)
        nameOk ==
            IF pattern # <<>>
            THEN IF \E i \in 1..Len(pattern) : pattern[i] = " "
                 THEN \A k \in 1..Len(keywords) : fuzzy_match(keywords[k], filename_lower)
                 ELSE fuzzy_match(pattern, filename_lower)
            ELSE TRUE
        typeOk ==
            IF file_type # <<>> /\ ~is_folder
            THEN EndsWith(filename_lower, <<".">> \o file_type)
            ELSE TRUE
    IN  nameOk /\ typeOk

(***************************************************************************)
(* Configuration (src/config/settings.py)                                  *)
(***************************************************************************)
MAX_SEARCH_RESULTS == 50
MAX_DISPLAY_RESULTS == 20

FILE_TYPES_code == {
    <<".","p","y">>, <<".","p","y","w">>, <<".","i","p","y","n","b">>,
    <<".","j","s">>, <<".","t","s">>, <<".","j","s","x">>,
    <<".","t","s","x">>, <<".","h","t","m","l">>, <<".","h","t","m">>,
    <<".","c","s","s">>, <<".","s","c","s","s">>, <<".","s","a","s","s">>,
    <<".","l","e","s","s">>, <<".","j","a","v","a">>, <<".","c","l","a","s","s">>,
    <<".","j","a","r">>, <<".","c","p","p">>, <<".","c","c">>,
    <<".","c","x","x">>, <<".","c">>, <<".","h">>,
    <<".","h","p","p">>, <<".","p","h","p">>, <<".","r","b">>,
    <<".","g","o">>, <<".","r","s">>, <<".","s","w","i","f","t">>,
    <<".","k","t">>, <<".","k","t","s">>, <<".","c","s">>,
    <<".","v","b">>, <<".","p","l">>, <<".","s","h">>,
    <<".","b","a","t">>, <<".","p","s","1">>, <<".","r">>,
    <<".","m">>, <<".","s","c","a","l","a">>, <<".","s","q","l">>}

FILE_TYPES_documents == {
    <<".","t","x","t">>, <<".","p","d","f">>, <<".","d","o","c","x">>,
    <<".","d","o","c">>, <<".","r","t","f">>, <<".","o","d","t">>,
    <<".","p","p","t">>, <<".","p","p","t","x">>, <<".","o","d","p">>,
    <<".","m","d">>, <<".","t","e","x">>}

\* os.path.expanduser("~") of the machine the model runs on: %USERPROFILE%
UserHome == <<"C",":","\\","u">>

\* PRIORITY_PATHS: expanduser("~/Desktop") is userhome + "/Desktop" on Windows
\* (ntpath.expanduser appends the rest of the argument unchanged).
PRIORITY_PATHS == <<
    UserHome \o <<"/","D","e","s","k","t","o","p">>,
    UserHome \o <<"/","D","o","c","u","m","e","n","t","s">>,
    UserHome \o <<"/","D","o","w","n","l","o","a","d","s">>,
    UserHome \o <<"/","P","i","c","t","u","r","e","s">>
>>

(***************************************************************************)
(* The filesystem the searches run against                                 *)
(*   C:\  docs\{abc\{abc.py}, "ab cd"\, ABC.TXT, abd.md}                   *)
(*        Windows\{abc\{abcx.txt}, abc.txt}                                *)
(*        AppData\{Windows\{abc.py}, Local\{abc.txt}, abc.cfg}             *)
(*        .cache\{abc.txt}   u\{Desktop\{abc.txt}}                         *)
(*        bulk\{abc00\ .. , abc00.txt ..}    abc.txt  Xabc.py              *)
(*   D:\  abc\{abc.txt}  abc.md  zzz.txt                                   *)
(* Directory and file lists are in scandir order.                          *)
(***************************************************************************)
BulkDirs == 24
BulkFiles == 30

N_docs == <<"d","o","c","s">>
N_Windows == <<"W","i","n","d","o","w","s">>
N_AppData == <<"A","p","p","D","a","t","a">>
N_cache == <<".","c","a","c","h","e">>
N_bulk == <<"b","u","l","k">>
N_Local == <<"L","o","c","a","l">>
N_abc == <<"a","b","c">>
N_ab_cd == <<"a","b"," ","c","d">>
N_abc_txt == <<"a","b","c",".","t","x","t">>
N_Xabc_py == <<"X","a","b","c",".","p","y">>
N_ABC_TXT == <<"A","B","C",".","T","X","T">>
N_abd_md == <<"a","b","d",".","m","d">>
N_abc_py == <<"a","b","c",".","p","y">>
N_abcx_txt == <<"a","b","c","x",".","t","x","t">>
N_abc_cfg == <<"a","b","c",".","c","f","g">>
N_abc_md == <<"a","b","c",".","m","d">>
N_zzz_txt == <<"z","z","z",".","t","x","t">>
N_u == <<"u">>
N_Desktop == <<"D","e","s","k","t","o","p">>

Digits == <<"0","1","2","3","4","5","6","7","8","9">>
TwoDigits(n) == <<Digits[((n \div 10) % 10) + 1], Digits[(n % 10) + 1]>>

BulkDirIds == {1000 + i : i \in 1..BulkDirs}
BulkFileIds == {2000 + i : i \in 1..BulkFiles}
BulkAges == <<0, 3, 10, 100>>

Dir(nm, par, ds, fs, age) ==
    [name |-> nm, parent |-> par, isDir |-> TRUE, dirs |-> ds, files |-> fs,
     ageDays |-> age, size |-> 0]
File(nm, par, age, sz) ==
    [name |-> nm, parent |-> par, isDir |-> FALSE, dirs |-> <<>>, files |-> <<>>,
     ageDays |-> age, size |-> sz]

RootC == 1
RootD == 2

Node(id) ==
    CASE id = 1  -> Dir(<<"C",":","\\">>, 0, <<12, 10, 11, 13, 15, 14>>, <<20, 21>>, 100)
      [] id = 2  -> Dir(<<"D",":","\\">>, 0, <<50>>, <<51, 52>>, 100)
      [] id = 10 -> Dir(N_Windows, 1, <<30>>, <<31>>, 100)
      [] id = 11 -> Dir(N_AppData, 1, <<32, 33>>, <<34>>, 3)
      [] id = 12 -> Dir(N_docs, 1, <<37, 38>>, <<39, 40>>, 0)
      [] id = 13 -> Dir(N_cache, 1, <<>>, <<41>>, 10)
      [] id = 14 -> Dir(N_bulk, 1, [i \in 1..BulkDirs |-> 1000 + i],
                        [i \in 1..BulkFiles |-> 2000 + i], 100)
      [] id = 15 -> Dir(N_u, 1, <<16>>, <<>>, 100)
      [] id = 16 -> Dir(N_Desktop, 15, <<>>, <<17>>, 100)
      [] id = 17 -> File(N_abc_txt, 16, 100, 10)
      [] id = 20 -> File(N_abc_txt, 1, 100, 10)
      [] id = 21 -> File(N_Xabc_py, 1, 3, 5000)
      [] id = 30 -> Dir(N_abc, 10, <<>>, <<43>>, 100)
      [] id = 31 -> File(N_abc_txt, 10, 0, 10)
      [] id = 32 -> Dir(N_Windows, 11, <<>>, <<35>>, 100)
      [] id = 33 -> Dir(N_Local, 11, <<>>, <<36>>, 100)
      [] id = 34 -> File(N_abc_cfg, 11, 100, 10)
      [] id = 35 -> File(N_abc_py, 32, 100, 10)
      [] id = 36 -> File(N_abc_txt, 33, 100, 10)
      [] id = 37 -> Dir(N_abc, 12, <<>>, <<42>>, 10)
      [] id = 38 -> Dir(N_ab_cd, 12, <<>>, <<>>, 100)
      [] id = 39 -> File(N_ABC_TXT, 12, 0, 10)
      [] id = 40 -> File(N_abd_md, 12, 100, 10)
      [] id = 41 -> File(N_abc_txt, 13, 0, 10)
      [] id = 42 -> File(N_abc_py, 37, 100, 5000)
      [] id = 43 -> File(N_abcx_txt, 30, 0, 10)
      [] id = 50 -> Dir(N_abc, 2, <<>>, <<53>>, 3)
      [] id = 51 -> File(N_abc_md, 2, 100, 10)
      [] id = 52 -> File(N_zzz_txt, 2, 0, 10)
      [] id = 53 -> File(N_abc_txt, 50, 0, 10)
      [] id \in BulkDirIds ->
            Dir(N_abc \o TwoDigits(id - 1000), 14, <<>>, <<>>,
                BulkAges[((id - 1000) % 4) + 1])
      [] id \in BulkFileIds ->
            File(N_abc \o TwoDigits(id - 2000) \o <<".","t","x","t">>, 14,
                 BulkAges[((id - 2000) % 4) + 1], 10)

NamedIds == {1, 2, 10, 11, 12, 13, 14, 15, 16, 17, 20, 21, 30, 31, 32, 33, 34, 35,
             36, 37, 38, 39, 40, 41, 42, 43, 50, 51, 52, 53}
NodeIds == NamedIds \cup BulkDirIds \cup BulkFileIds
DirIds == {id \in NodeIds : Node(id).isDir}

\* the drive letters for which os.path.exists(f"{letter}:\\") is true, A..Z order
AvailableDrives == <<<<"C">>, <<"D">>>>
DriveRoot(letter) == IF letter = <<"C">> THEN RootC ELSE RootD

\* str(Path(root) / name): components joined by the separator
RECURSIVE PathStr(_)
PathStr(id) ==
    LET n == Node(id)
    IN  IF n.parent = 0 THEN n.name
        ELSE IF Node(n.parent).parent = 0
             THEN PathStr(n.parent) \o n.name
             ELSE PathStr(n.parent) \o <<"\\">> \o n.name

\* the proper ancestors of a node, nearest first
RECURSIVE Ancestors(_)
Ancestors(id) ==
    IF Node(id).parent = 0 THEN {}
    ELSE {Node(id).parent} \cup Ancestors(Node(id).parent)

(***************************************************************************)
(* Filesystem faults.  A fault record names the entries whose system calls *)
(* fail during one search:                                                 *)
(*   unlistable  directories whose scandir fails (os.walk, onerror=None,   *)
(*               skips them silently)                                      *)
(*   denied      entries whose stat raises PermissionError during the walk *)
(*               (Path.exists() re-raises every OSError it does not ignore)*)
(*   gone        entries whose stat reports ENOENT (exists() is False)     *)
(*   lateDenied  entries whose stat raises PermissionError once the walk   *)
(*               is over (Path.is_dir() re-raises it while scoring)        *)
(*   statFails   entries whose file_path.stat() fails while scoring, after *)
(*               is_dir() has answered                                     *)
(*   lateGone    entries removed once the walk is over: is_dir() is False  *)
(*               (ENOENT is ignored) and file_path.stat() fails            *)
(***************************************************************************)
Fault(u, d, g, l, s, lg) ==
    [unlistable |-> u, denied |-> d, gone |-> g, lateDenied |-> l, statFails |-> s,
     lateGone |-> lg]

NoFault == Fault({}, {}, {}, {}, {}, {})

Faults == {
    NoFault,
    Fault({}, {37}, {}, {}, {}, {}),        \* docs\abc: stat denied
    Fault({}, {39}, {20}, {}, {}, {}),      \* docs\ABC.TXT denied, C:\abc.txt gone
    Fault({1}, {}, {}, {}, {}, {}),         \* C:\ cannot be opened
    Fault({12}, {}, {}, {}, {}, {}),        \* C:\docs cannot be listed
    Fault({14}, {}, {}, {51}, {}, {}),      \* D:\abc.md: denied while scoring
    Fault({14}, {}, {}, {}, {20, 37}, {}),  \* stat fails while scoring
    Fault({}, {12}, {}, {}, {}, {}),        \* C:\docs: stat denied
    Fault({14}, {}, {}, {}, {}, {50})       \* D:\abc removed before scoring
}

(***************************************************************************)
(* Queries: the search_params dictionaries handed to search_files          *)
(***************************************************************************)
Query(f, t, s, d) == [filename |-> f, file_type |-> t, search_type |-> s, drive |-> d]

QueryNames == {<<>>, <<"A","B","C">>, <<"a","b","c","c">>, <<"a","b"," ","c">>}
QueryTypes == {<<>>, <<"t","x","t">>, <<"T","X","T">>}
QueryKinds == {"files", "folders", "both"}
QueryDrives == {<<>>, <<"d">>, <<"D">>, <<"z">>}

Queries == {Query(f, t, s, d) : f \in QueryNames, t \in QueryTypes,
                                s \in QueryKinds, d \in QueryDrives}

\* the directories _search_in_directory is handed when it is called on its own
DirectRoots == {10, 11, 12, 33}

(***************************************************************************)
(* RelevanceScorer: _calculate_relevance, in tenths of a point             *)
(***************************************************************************)
\* PurePath.suffix: from the last dot, unless the dot is first or last
Suffix(name) ==
    LET dots == {i \in 1..Len(name) : name[i] = "."}
        Last == CHOOSE i \in dots : \A j \in dots : j <= i
    IN  IF dots = {} THEN <<>>
        ELSE IF 1 < Last /\ Last < Len(name)
             THEN SubSeq(name, Last, Len(name))
             ELSE <<>>

\* a kind bonus that rewards every exact kind match alike
KindBonus_flat(search_type, is_folder) ==
    IF search_type = "folders" /\ is_folder THEN 100
    ELSE IF search_type = "files" /\ ~is_folder THEN 100
    ELSE IF is_folder THEN 80
    ELSE 0

\* lines 367-373: the kind bonus
KindBonus(search_type, is_folder) ==
    IF search_type = "folders" /\ is_folder THEN 150
    ELSE IF search_type = "files" /\ ~is_folder THEN 100
    ELSE IF is_folder THEN 80
    ELSE 0

\* lines 375-384: exact, partial and prefix match of the lower-cased names
NameBonus(filename, search_filename) ==
    (IF search_filename # <<>> /\ search_filename = filename THEN 100 ELSE 0)
    + (IF search_filename # <<>> /\ Contains(filename, search_filename)
       THEN 50 + (IF StartsWith(filename, search_filename) THEN 20 ELSE 0)
       ELSE 0)

\* lines 386-388: the extension as the query gives it, not lower-cased
TypeBonus(filename, file_type, is_folder) ==
    IF ~is_folder /\ file_type # <<>> /\ EndsWith(filename, <<".">> \o file_type)
    THEN 30 ELSE 0

\* lines 390-395: first priority path the lower-cased path starts with
PriorityBonus(file_str) ==
    IF \E i \in 1..Len(PRIORITY_PATHS) : StartsWith(file_str, Lower(PRIORITY_PATHS[i]))
    THEN 20 ELSE 0

\* a recency bonus computed although the stat call failed
RecencyBonus_ignores_failure(statOk, days_old) ==
    IF days_old < 1 THEN 20
    ELSE IF days_old < 7 THEN 10
    ELSE IF days_old < 30 THEN 5
    ELSE 0

\* lines 397-408: tiers of days_old; a failed stat adds nothing
RecencyBonus(statOk, days_old) ==
    IF ~statOk THEN 0
    ELSE IF days_old < 1 THEN 20
    ELSE IF days_old < 7 THEN 10
    ELSE IF days_old < 30 THEN 5
    ELSE 0

\* lines 410-426: files only; a failed stat adds nothing
SizeBonus(statOk, is_folder, file_ext, file_size) ==
    IF is_folder \/ ~statOk THEN 0
    ELSE IF file_ext \in FILE_TYPES_code
         THEN (IF 1000 < file_size /\ file_size < 100000 THEN 5 ELSE 0)
    ELSE IF file_ext \in FILE_TYPES_documents THEN 1
    ELSE 0

\* line 399: days_old, from time.time() at the moment of scoring
DaysOld(id) == Node(id).ageDays + (IF id \in aged THEN 1 ELSE 0)

\* _calculate_relevance(file_path, search_params), once is_dir() has answered
calculate_relevance(id, q, flt) ==
    LET n == Node(id)
        filename == Lower(n.name)
        search_filename == Lower(q.filename)
        is_folder == n.isDir /\ id \notin flt.lateGone
        statOk == id \notin flt.statFails \cup flt.lateGone
    IN  KindBonus(q.search_type, is_folder)
        + NameBonus(filename, search_filename)
        + TypeBonus(filename, q.file_type, is_folder)
        + PriorityBonus(Lower(PathStr(id)))
        + RecencyBonus(statOk, DaysOld(id))
        + SizeBonus(statOk, is_folder, Lower(Suffix(n.name)), n.size)

\* what a call of _calculate_relevance gives: is_dir() at line 365 raises for an
\* entry whose stat is denied, before any signal is looked at
relevance_outcome(id, q, flt) ==
    IF id \in flt.lateDenied
    THEN [raised |-> TRUE, value |-> 0]
    ELSE [raised |-> FALSE, value |-> calculate_relevance(id, q, flt)]

\* file_path.is_dir() at line 365 raises for an entry whose stat is denied
ScoringRaises(results_, flt) ==
    \E i \in 1..Len(results_) : results_[i] \in flt.lateDenied

(***************************************************************************)
(* list.sort(key=..., reverse=True): stable, descending by key             *)
(***************************************************************************)
\* the keys are computed once per element, then the (key, entry) pairs sorted
KeyedBy(seq, q, flt) ==
    [i \in 1..Len(seq) |-> <<calculate_relevance(seq[i], q, flt), seq[i]>>]

\* insertion in front of the elements with an equal key: ties come out reversed
RECURSIVE InsertDesc_unstable(_, _)
InsertDesc_unstable(sorted, x) ==
    IF sorted = <<>> THEN <<x>>
    ELSE IF Head(sorted)[1] > x[1]
         THEN <<Head(sorted)>> \o InsertDesc_unstable(Tail(sorted), x)
         ELSE <<x>> \o sorted

\* insert x behind every element whose key is >= key(x)
RECURSIVE InsertDesc(_, _)
InsertDesc(sorted, x) ==
    IF sorted = <<>> THEN <<x>>
    ELSE IF Head(sorted)[1] >= x[1]
         THEN <<Head(sorted)>> \o InsertDesc(Tail(sorted), x)
         ELSE <<x>> \o sorted

RECURSIVE SortFrom(_, _, _)
SortFrom(keyed, i, acc) ==
    IF i > Len(keyed) THEN acc
    ELSE SortFrom(keyed, i + 1, InsertDesc(acc, keyed[i]))

sort_by_relevance(seq, q, flt) ==
    LET sorted == SortFrom(KeyedBy(seq, q, flt), 1, <<>>)
    IN  [i \in 1..Len(sorted) |-> sorted[i][2]]

\* results[:MAX_DISPLAY_RESULTS]
Truncate(seq) ==
    IF Len(seq) <= MAX_DISPLAY_RESULTS THEN seq ELSE SubSeq(seq, 1, MAX_DISPLAY_RESULTS)

(***************************************************************************)
(* TraversalEngine: helpers of search_files and _search_in_directory       *)
(***************************************************************************)
N_SystemVolumeInformation ==
    <<"S","y","s","t","e","m"," ","V","o","l","u","m","e"," ",
      "I","n","f","o","r","m","a","t","i","o","n">>
N_RecycleBin == <<"$","R","E","C","Y","C","L","E",".","B","I","N">>
N_ProgramFiles == <<"P","r","o","g","r","a","m"," ","F","i","l","e","s">>
N_ProgramFilesX86 ==
    <<"P","r","o","g","r","a","m"," ","F","i","l","e","s"," ","(","x","8","6",")">>
N_ProgramData == <<"P","r","o","g","r","a","m","D","a","t","a">>

\* the exclusion list without the operating-system directory
ExclusionSet_without_Windows ==
    {N_SystemVolumeInformation, N_RecycleBin, N_ProgramFiles,
     N_ProgramFilesX86, N_ProgramData, N_AppData}

\* the list of lines 193-201
ExclusionSet == {N_SystemVolumeInformation, N_RecycleBin, N_Windows, N_ProgramFiles,
                 N_ProgramFilesX86, N_ProgramData, N_AppData}
\* the list of lines 205-208
NarrowExclusionSet == {N_SystemVolumeInformation, N_RecycleBin}

\* a filter that drops the named directories only
FilterDirs_keeps_hidden(ds, excluded) ==
    LET Keep(d) == Node(d).name \notin excluded
    IN  SelectSeq(ds, Keep)

\* [d for d in dirs if not d.startswith('.') and d not in excluded]
FilterDirs(ds, excluded) ==
    LET Keep(d) == ~StartsWith(Node(d).name, <<".">>) /\ Node(d).name \notin excluded
    IN  SelectSeq(ds, Keep)

\* 'appdata' in directory.lower()
InsideAppData(dir) == Contains(Lower(PathStr(dir)), <<"a","p","p","d","a","t","a">>)

\* lines 192-208: both assignments to dirs[:], in order
prune_dirs(dir, ds) ==
    LET general == FilterDirs(ds, ExclusionSet)
    IN  IF InsideAppData(dir) THEN FilterDirs(general, NarrowExclusionSet) ELSE general

\* the cap test with > for >=
CapReached_strict(n) == n > MAX_SEARCH_RESULTS

\* len(results) >= MAX_SEARCH_RESULTS
CapReached(n) == n >= MAX_SEARCH_RESULTS

\* _determine_search_drives comparing the hint as it was typed
determine_search_drives_case_sensitive(q) ==
    IF q.drive # <<>> /\ \E i \in 1..Len(AvailableDrives) : AvailableDrives[i] = q.drive
    THEN <<q.drive>>
    ELSE AvailableDrives

\* _determine_search_drives, as drive letters
determine_search_drives(q) ==
    IF q.drive # <<>> /\ \E i \in 1..Len(AvailableDrives) : AvailableDrives[i] = Upper(q.drive)
    THEN <<Upper(q.drive)>>
    ELSE AvailableDrives

\* Path.exists() during the walk
Exists(id) ==
    IF id \in faults.denied THEN "raise"
    ELSE IF id \in faults.gone THEN "false"
    ELSE "true"

Reverse(s) == [i \in 1..Len(s) |-> s[Len(s) + 1 - i]]

\* the arguments search_files passes on (lines 36-37), or the caller's own
FilenamePattern == IF mode = "direct" THEN query.filename ELSE Lower(query.filename)
FileTypeArg == IF mode = "direct" THEN query.file_type ELSE Lower(query.file_type)
WantsFolders == query.search_type \in {"folders", "both"}
WantsFiles == query.search_type \in {"files", "both"}
HasSpinner == mode = "search_files"

\* where control goes when _search_in_directory returns
ReturnPc == IF mode = "search_files" THEN "sf_after" ELSE "done"

\* a handler that gives up the remaining drives
on_walk_error_abort == IF mode = "search_files" THEN "sf_post" ELSE "done"

\* lines 229-232: both handlers log and fall through to the implicit return
on_walk_error == ReturnPc

walkvars == <<stack, root, dirs, files, idx>>

(***************************************************************************)
(* search_files (lines 31-85)                                              *)
(***************************************************************************)
\* an accumulator that outlives the call
new_results_kept(previous) == previous

\* line 33: results = [], a list local to the call
new_results(previous) == <<>>

\* a start() that leaves the running flag as it found it
busy_after_start_unset(b) == b

\* Spinner.start, the flag as its caller sees it: if not self.busy: self.busy = True
busy_after_start(b) == IF ~b THEN TRUE ELSE b

\* a stop() that leaves the running flag as it found it
busy_after_stop_unset(b) == b

\* Spinner.stop, the flag as its caller sees it: if self.busy: self.busy = False
busy_after_stop(b) == IF b THEN FALSE ELSE b

\* lines 33-52: resolve the roots, build the label, start the spinner
SearchFilesStart ==
    /\ pc = "sf_start"
    /\ drives_to_search' = determine_search_drives(query)
    /\ results' = new_results(results)
    /\ di' = 1
    /\ sbusy' = busy_after_start(sbusy)
    /\ slabel' = "searching"
    /\ pc' = "sf_drive"
    /\ UNCHANGED <<cvars, directory, walkvars, exc, returned, nonsearch, hvars>>

\* lines 55-62: next drive, label update, call _search_in_directory
DriveLoop ==
    /\ pc = "sf_drive"
    /\ di <= Len(drives_to_search)
    /\ slabel' = "drive"
    /\ directory' = DriveRoot(drives_to_search[di])
    /\ stack' = <<DriveRoot(drives_to_search[di])>>
    /\ walked' = walked \cup {DriveRoot(drives_to_search[di])}
    /\ pc' = "walk"
    /\ UNCHANGED <<cvars, drives_to_search, di, results, root, dirs, files, idx, exc,
                   returned, sbusy, nonsearch, examined, visited, raisedAt, collected, failedAt, keys>>

\* line 55: the drives are exhausted
DriveLoopEnd ==
    /\ pc = "sf_drive"
    /\ di > Len(drives_to_search)
    /\ pc' = "sf_post"
    /\ UNCHANGED <<cvars, drives_to_search, di, directory, results, walkvars, exc,
                   returned, sbusy, slabel, nonsearch, hvars>>

\* a drive loop that goes on to the next drive whatever was collected
drive_loop_breaks_never(n) == FALSE

\* lines 64-65: if len(results) >= MAX_SEARCH_RESULTS: break
drive_loop_breaks(n) == CapReached(n)

\* lines 64-65: break at the cap, else the next drive
AfterWalk ==
    /\ pc = "sf_after"
    /\ IF drive_loop_breaks(Len(results))
       THEN pc' = "sf_post" /\ di' = di
       ELSE pc' = "sf_drive" /\ di' = di + 1
    /\ UNCHANGED <<cvars, drives_to_search, directory, results, walkvars, exc,
                   returned, sbusy, slabel, nonsearch, hvars>>

\* lines 72-80: sort by relevance; a raising key function leaves the list as it was
PostProcess ==
    /\ pc = "sf_post"
    /\ collected' = results
    /\ IF results # <<>>
       THEN /\ slabel' = "processing"
            /\ IF ScoringRaises(results, faults)
               THEN exc' = TRUE /\ results' = results
               ELSE exc' = exc /\ results' = sort_by_relevance(results, query, faults)
            /\ keys' = IF ScoringRaises(results, faults) THEN keys
                       ELSE [x \in {results[i] : i \in 1..Len(results)} |->
                                calculate_relevance(x, query, faults)]
       ELSE /\ slabel' = "no_results"
            /\ UNCHANGED <<exc, results, keys>>
    /\ pc' = "sf_finally"
    /\ UNCHANGED <<cvars, drives_to_search, di, directory, walkvars, returned, sbusy,
                   nonsearch, examined, visited, walked, raisedAt, failedAt>>

\* lines 82-85: spinner.stop(), then the return or the pending exception
Finally ==
    /\ pc = "sf_finally"
    /\ sbusy' = busy_after_stop(sbusy)
    /\ IF exc
       THEN pc' = "raised" /\ returned' = returned
       ELSE pc' = "returned" /\ returned' = Truncate(results)
    /\ UNCHANGED <<cvars, drives_to_search, di, directory, results, walkvars, exc,
                   slabel, nonsearch, hvars>>

\* search_files has returned and is called again with the same search_params;
\* the filesystem is as it was, the clock is not
\* time has passed: D:\abc is a day older but in its tier (3 days, then 4), and
\* D:\zzz.txt may have left the first tier (under a day, then over)
AgingChoices == {{50}, {50, 52}}

SearchFilesAgain ==
    /\ mode = "search_files"
    /\ pc = "returned"
    /\ calls = 1
    /\ calls' = calls + 1
    /\ \E a \in AgingChoices : aged' = aged \cup a
    /\ first' = returned
    /\ firstCollected' = collected
    /\ pc' = "sf_start"
    /\ drives_to_search' = <<>>
    /\ di' = 0
    /\ directory' = 0
    /\ stack' = <<>>
    /\ root' = 0
    /\ dirs' = <<>>
    /\ files' = <<>>
    /\ idx' = 0
    /\ exc' = FALSE
    /\ returned' = <<>>
    /\ sbusy' = FALSE
    /\ slabel' = "none"
    /\ examined' = {}
    /\ visited' = {}
    /\ walked' = {}
    /\ raisedAt' = {}
    /\ collected' = <<>>
    /\ failedAt' = {}
    /\ keys' = <<>>
    /\ UNCHANGED <<mode, query, faults, results, drive_results, items_scanned, nonsearch>>

(***************************************************************************)
(* _search_in_directory (lines 164-232)                                    *)
(***************************************************************************)
\* line 168: os.walk yields the next directory it can list
WalkYield ==
    /\ pc = "walk"
    /\ stack # <<>>
    /\ stack[Len(stack)] \notin faults.unlistable
    /\ root' = stack[Len(stack)]
    /\ dirs' = Node(stack[Len(stack)]).dirs
    /\ files' = Node(stack[Len(stack)]).files
    /\ stack' = SubSeq(stack, 1, Len(stack) - 1)
    /\ idx' = 1
    /\ visited' = visited \cup {stack[Len(stack)]}
    /\ pc' = IF WantsFolders THEN "folders" ELSE "prune"
    /\ UNCHANGED <<cvars, drives_to_search, di, directory, results, exc, returned,
                   sbusy, slabel, nonsearch, examined, walked, raisedAt, collected, failedAt, keys>>

\* line 168: scandir fails, os.walk (onerror=None) passes over the directory
WalkSkip ==
    /\ pc = "walk"
    /\ stack # <<>>
    /\ stack[Len(stack)] \in faults.unlistable
    /\ stack' = SubSeq(stack, 1, Len(stack) - 1)
    /\ UNCHANGED <<cvars, pc, drives_to_search, di, directory, results, root, dirs,
                   files, idx, exc, returned, sbusy, slabel, nonsearch, hvars>>

\* line 168: os.walk is exhausted, _search_in_directory returns
WalkEnd ==
    /\ pc = "walk"
    /\ stack = <<>>
    /\ pc' = ReturnPc
    /\ UNCHANGED <<cvars, drives_to_search, di, directory, results, walkvars, exc,
                   returned, sbusy, slabel, nonsearch, hvars>>

\* lines 178-190: one child directory of the folder loop
FolderStep ==
    /\ pc = "folders"
    /\ idx <= Len(dirs)
    /\ examined' = examined \cup {dirs[idx]}
    /\ IF ~matches_criteria(Node(dirs[idx]).name, FilenamePattern, <<>>, TRUE)
       THEN /\ idx' = idx + 1
            /\ UNCHANGED <<pc, results, slabel, raisedAt>>
       ELSE CASE Exists(dirs[idx]) = "raise" ->
                    /\ pc' = "walk_error"
                    /\ raisedAt' = raisedAt \cup {dirs[idx]}
                    /\ UNCHANGED <<idx, results, slabel>>
              [] Exists(dirs[idx]) = "false" ->
                    /\ idx' = idx + 1
                    /\ UNCHANGED <<pc, results, slabel, raisedAt>>
              [] Exists(dirs[idx]) = "true" ->
                    /\ results' = Append(results, dirs[idx])
                    /\ slabel' = IF HasSpinner /\ (Len(results) + 1) % 3 = 0
                                 THEN "found_folders" ELSE slabel
                    /\ IF CapReached(Len(results) + 1)
                       THEN pc' = ReturnPc /\ idx' = idx
                       ELSE pc' = pc /\ idx' = idx + 1
                    /\ UNCHANGED raisedAt
    /\ UNCHANGED <<cvars, drives_to_search, di, directory, stack, root, dirs, files,
                   exc, returned, sbusy, nonsearch, visited, walked, collected, failedAt, keys>>

\* line 178: the folder loop is over
FolderLoopEnd ==
    /\ pc = "folders"
    /\ idx > Len(dirs)
    /\ pc' = "prune"
    /\ UNCHANGED <<cvars, drives_to_search, di, directory, results, walkvars, exc,
                   returned, sbusy, slabel, nonsearch, hvars>>

\* lines 192-208: prune dirs in place
Prune ==
    /\ pc = "prune"
    /\ dirs' = prune_dirs(directory, dirs)
    /\ idx' = 1
    /\ pc' = IF WantsFiles THEN "files" ELSE "descend"
    /\ UNCHANGED <<cvars, drives_to_search, di, directory, results, stack, root, files,
                   exc, returned, sbusy, slabel, nonsearch, hvars>>

\* lines 212-227: one file of the file loop; its own handler continues the loop
FileStep ==
    /\ pc = "files"
    /\ idx <= Len(files)
    /\ examined' = examined \cup {files[idx]}
    /\ IF ~matches_criteria(Node(files[idx]).name, FilenamePattern, FileTypeArg, FALSE)
       THEN /\ idx' = idx + 1
            /\ UNCHANGED <<pc, results, slabel, raisedAt>>
       ELSE CASE Exists(files[idx]) = "raise" ->
                    /\ idx' = idx + 1
                    /\ raisedAt' = raisedAt \cup {files[idx]}
                    /\ UNCHANGED <<pc, results, slabel>>
              [] Exists(files[idx]) = "false" ->
                    /\ idx' = idx + 1
                    /\ UNCHANGED <<pc, results, slabel, raisedAt>>
              [] Exists(files[idx]) = "true" ->
                    /\ results' = Append(results, files[idx])
                    /\ slabel' = IF HasSpinner /\ (Len(results) + 1) % 5 = 0
                                 THEN "found_matches" ELSE slabel
                    /\ IF CapReached(Len(results) + 1)
                       THEN pc' = ReturnPc /\ idx' = idx
                       ELSE pc' = pc /\ idx' = idx + 1
                    /\ UNCHANGED raisedAt
    /\ UNCHANGED <<cvars, drives_to_search, di, directory, stack, root, dirs, files,
                   exc, returned, sbusy, nonsearch, visited, walked, collected, failedAt, keys>>

\* line 212: the file loop is over
FileLoopEnd ==
    /\ pc = "files"
    /\ idx > Len(files)
    /\ pc' = "descend"
    /\ UNCHANGED <<cvars, drives_to_search, di, directory, results, walkvars, exc,
                   returned, sbusy, slabel, nonsearch, hvars>>

\* line 168: back in os.walk, the directories left in dirs are queued depth-first
Descend ==
    /\ pc = "descend"
    /\ stack' = stack \o Reverse(dirs)
    /\ pc' = "walk"
    /\ UNCHANGED <<cvars, drives_to_search, di, directory, results, root, dirs, files,
                   idx, exc, returned, sbusy, slabel, nonsearch, hvars>>

\* lines 229-232: an exception left the walk; it is logged and the call returns
WalkError ==
    /\ pc = "walk_error"
    /\ pc' = on_walk_error
    /\ failedAt' = failedAt \cup {[root |-> directory, len |-> Len(results)]}
    /\ UNCHANGED <<cvars, drives_to_search, di, directory, results, walkvars, exc,
                   returned, sbusy, slabel, nonsearch, examined, visited, walked,
                   raisedAt, collected, keys>>

(***************************************************************************)
(* search_files_with_detailed_progress (lines 87-151) and                  *)
(* _search_in_directory_with_count (lines 234-287)                         *)
(***************************************************************************)
\* lines 255-258: the names this walk does not descend into
ExclusionSetWithCount ==
    {N_SystemVolumeInformation, N_RecycleBin, N_Windows, N_ProgramFiles,
     N_ProgramFilesX86, N_ProgramData}

\* lines 255-258: the one assignment to dirs[:]
prune_dirs_with_count(ds) == FilterDirs(ds, ExclusionSetWithCount)

\* lines 253, 277: len(existing_results) + len(results) >= MAX_SEARCH_RESULTS
CountCapReached(existing, found) == Len(existing) + Len(found) >= MAX_SEARCH_RESULTS

\* lines 89-104: resolve the roots, build the label, start the spinner
DetailedStart ==
    /\ pc = "dp_start"
    /\ results' = <<>>
    /\ drives_to_search' = determine_search_drives(query)
    /\ di' = 1
    /\ sbusy' = busy_after_start(sbusy)
    /\ slabel' = "initializing"
    /\ pc' = "dp_drive"
    /\ UNCHANGED <<cvars, directory, walkvars, exc, returned, nonsearch, hvars>>

\* lines 109-116: next drive, label update, call _search_in_directory_with_count
DetailedDriveLoop ==
    /\ pc = "dp_drive"
    /\ di <= Len(drives_to_search)
    /\ slabel' = "drive"
    /\ directory' = DriveRoot(drives_to_search[di])
    /\ stack' = <<DriveRoot(drives_to_search[di])>>
    /\ walked' = walked \cup {DriveRoot(drives_to_search[di])}
    /\ drive_results' = <<>>
    /\ items_scanned' = 0
    /\ pc' = "wc_walk"
    /\ UNCHANGED <<qvars, drives_to_search, di, results, root, dirs, files, idx, exc,
                   returned, sbusy, nonsearch, examined, visited, raisedAt, collected,
                   failedAt, keys>>

\* line 109: the drives are exhausted
DetailedDriveLoopEnd ==
    /\ pc = "dp_drive"
    /\ di > Len(drives_to_search)
    /\ pc' = "dp_post"
    /\ UNCHANGED <<cvars, drives_to_search, di, directory, results, walkvars, exc,
                   returned, sbusy, slabel, nonsearch, hvars>>

\* lines 118-130: extend the accumulator, label update, break at the cap
DetailedAfterWalk ==
    /\ pc = "dp_after"
    /\ results' = results \o drive_results
    /\ IF CapReached(Len(results) + Len(drive_results))
       THEN slabel' = "limit" /\ pc' = "dp_post" /\ di' = di
       ELSE slabel' = "found_scanned" /\ pc' = "dp_drive" /\ di' = di + 1
    /\ UNCHANGED <<cvars, drives_to_search, directory, walkvars, exc, returned, sbusy,
                   nonsearch, hvars>>

\* lines 137-147: sort by relevance; a raising key function leaves the list as it was
DetailedPostProcess ==
    /\ pc = "dp_post"
    /\ collected' = results
    /\ IF results # <<>>
       THEN /\ IF ScoringRaises(results, faults)
               THEN exc' = TRUE /\ results' = results /\ slabel' = "ranking"
               ELSE /\ exc' = exc
                    /\ results' = sort_by_relevance(results, query, faults)
                    /\ slabel' = "complete"
            /\ keys' = IF ScoringRaises(results, faults) THEN keys
                       ELSE [x \in {results[i] : i \in 1..Len(results)} |->
                                calculate_relevance(x, query, faults)]
       ELSE /\ slabel' = "no_matches"
            /\ UNCHANGED <<exc, results, keys>>
    /\ pc' = "dp_finally"
    /\ UNCHANGED <<cvars, drives_to_search, di, directory, walkvars, returned, sbusy,
                   nonsearch, examined, visited, walked, raisedAt, failedAt>>

\* lines 149-151: spinner.stop(), then the return or the pending exception
DetailedFinally ==
    /\ pc = "dp_finally"
    /\ sbusy' = busy_after_stop(sbusy)
    /\ IF exc
       THEN pc' = "raised" /\ returned' = returned
       ELSE pc' = "returned" /\ returned' = Truncate(results)
    /\ UNCHANGED <<cvars, drives_to_search, di, directory, results, walkvars, exc,
                   slabel, nonsearch, hvars>>

\* line 242: os.walk yields the next directory it can list
CountWalkYield ==
    /\ pc = "wc_walk"
    /\ stack # <<>>
    /\ stack[Len(stack)] \notin faults.unlistable
    /\ root' = stack[Len(stack)]
    /\ dirs' = Node(stack[Len(stack)]).dirs
    /\ files' = Node(stack[Len(stack)]).files
    /\ stack' = SubSeq(stack, 1, Len(stack) - 1)
    /\ idx' = 1
    /\ visited' = visited \cup {stack[Len(stack)]}
    /\ pc' = IF WantsFolders THEN "wc_folders" ELSE "wc_prune"
    /\ UNCHANGED <<cvars, drives_to_search, di, directory, results, exc, returned,
                   sbusy, slabel, nonsearch, examined, walked, raisedAt, collected,
                   failedAt, keys>>

\* line 242: os.walk passes over a directory it cannot list
CountWalkSkip ==
    /\ pc = "wc_walk"
    /\ stack # <<>>
    /\ stack[Len(stack)] \in faults.unlistable
    /\ stack' = SubSeq(stack, 1, Len(stack) - 1)
    /\ UNCHANGED <<cvars, pc, drives_to_search, di, directory, results, root, dirs,
                   files, idx, exc, returned, sbusy, slabel, nonsearch, hvars>>

\* lines 242, 287: os.walk is exhausted, the list and the count are returned
CountWalkEnd ==
    /\ pc = "wc_walk"
    /\ stack = <<>>
    /\ pc' = "dp_after"
    /\ UNCHANGED <<cvars, drives_to_search, di, directory, results, walkvars, exc,
                   returned, sbusy, slabel, nonsearch, hvars>>

\* lines 245-254: one child directory of the folder loop
CountFolderStep ==
    /\ pc = "wc_folders"
    /\ idx <= Len(dirs)
    /\ items_scanned' = items_scanned + 1
    /\ examined' = examined \cup {dirs[idx]}
    /\ IF ~matches_criteria(Node(dirs[idx]).name, FilenamePattern, <<>>, TRUE)
       THEN /\ idx' = idx + 1
            /\ UNCHANGED <<pc, drive_results, raisedAt>>
       ELSE CASE Exists(dirs[idx]) = "raise" ->
                    /\ pc' = "wc_error"
                    /\ raisedAt' = raisedAt \cup {dirs[idx]}
                    /\ UNCHANGED <<idx, drive_results>>
              [] Exists(dirs[idx]) = "false" ->
                    /\ idx' = idx + 1
                    /\ UNCHANGED <<pc, drive_results, raisedAt>>
              [] Exists(dirs[idx]) = "true" ->
                    /\ drive_results' = Append(drive_results, dirs[idx])
                    /\ IF CountCapReached(results, Append(drive_results, dirs[idx]))
                       THEN pc' = "dp_after" /\ idx' = idx
                       ELSE pc' = pc /\ idx' = idx + 1
                    /\ UNCHANGED raisedAt
    /\ UNCHANGED <<qvars, drives_to_search, di, directory, results, stack, root, dirs,
                   files, exc, returned, sbusy, slabel, nonsearch, visited, walked,
                   collected, failedAt, keys>>

\* line 245: the folder loop is over
CountFolderLoopEnd ==
    /\ pc = "wc_folders"
    /\ idx > Len(dirs)
    /\ pc' = "wc_prune"
    /\ UNCHANGED <<cvars, drives_to_search, di, directory, results, walkvars, exc,
                   returned, sbusy, slabel, nonsearch, hvars>>

\* lines 255-259: prune dirs in place
CountPrune ==
    /\ pc = "wc_prune"
    /\ dirs' = prune_dirs_with_count(dirs)
    /\ idx' = 1
    /\ pc' = IF WantsFiles THEN "wc_files" ELSE "wc_descend"
    /\ UNCHANGED <<cvars, drives_to_search, di, directory, results, stack, root, files,
                   exc, returned, sbusy, slabel, nonsearch, hvars>>

\* lines 263-280: one file of the file loop; its own handler continues the loop
CountFileStep ==
    /\ pc = "wc_files"
    /\ idx <= Len(files)
    /\ items_scanned' = items_scanned + 1
    /\ slabel' = IF (items_scanned + 1) % 100 = 0 THEN "scanned" ELSE slabel
    /\ examined' = examined \cup {files[idx]}
    /\ IF ~matches_criteria(Node(files[idx]).name, FilenamePattern, FileTypeArg, FALSE)
       THEN /\ idx' = idx + 1
            /\ UNCHANGED <<pc, drive_results, raisedAt>>
       ELSE CASE Exists(files[idx]) = "raise" ->
                    /\ idx' = idx + 1
                    /\ raisedAt' = raisedAt \cup {files[idx]}
                    /\ UNCHANGED <<pc, drive_results>>
              [] Exists(files[idx]) = "false" ->
                    /\ idx' = idx + 1
                    /\ UNCHANGED <<pc, drive_results, raisedAt>>
              [] Exists(files[idx]) = "true" ->
                    /\ drive_results' = Append(drive_results, files[idx])
                    /\ IF CountCapReached(results, Append(drive_results, files[idx]))
                       THEN pc' = "dp_after" /\ idx' = idx
                       ELSE pc' = pc /\ idx' = idx + 1
                    /\ UNCHANGED raisedAt
    /\ UNCHANGED <<qvars, drives_to_search, di, directory, results, stack, root, dirs,
                   files, exc, returned, sbusy, nonsearch, visited, walked, collected,
                   failedAt, keys>>

\* line 263: the file loop is over
CountFileLoopEnd ==
    /\ pc = "wc_files"
    /\ idx > Len(files)
    /\ pc' = "wc_descend"
    /\ UNCHANGED <<cvars, drives_to_search, di, directory, results, walkvars, exc,
                   returned, sbusy, slabel, nonsearch, hvars>>

\* line 242: back in os.walk, the directories left in dirs are queued depth-first
CountDescend ==
    /\ pc = "wc_descend"
    /\ stack' = stack \o Reverse(dirs)
    /\ pc' = "wc_walk"
    /\ UNCHANGED <<cvars, drives_to_search, di, directory, results, root, dirs, files,
                   idx, exc, returned, sbusy, slabel, nonsearch, hvars>>

\* lines 282-287: an exception left the walk; it is logged and what was found
\* so far is returned
CountWalkError ==
    /\ pc = "wc_error"
    /\ pc' = "dp_after"
    /\ failedAt' = failedAt \cup {[root |-> directory,
                                   len |-> Len(results) + Len(drive_results)]}
    /\ UNCHANGED <<cvars, drives_to_search, di, directory, results, walkvars, exc,
                   returned, sbusy, slabel, nonsearch, examined, visited, walked,
                   raisedAt, collected, keys>>

(***************************************************************************)
(* Spinner (src/utils/loading_spinners.py): one object, the thread that    *)
(* calls start(), stop() and update_text() on it, and the reporter threads *)
(* start() creates.  Every statement of spinner_task is one step, so the   *)
(* caller's steps interleave with the reporter's as the scheduler allows.  *)
(***************************************************************************)
MaxThreads == 2
MaxOps == 4
TextLens == {2, 5}

Threads == 1..MaxThreads

\* line 63: "\r" + text + " " + one frame character
FrameWidth(n) == n + 2

\* line 68: "\r" + (len(self.text) + 3) blanks + "\r"
ClearWidth(n) == n + 3

SpinnerIdle ==
    /\ line = 0
    /\ lateUpdate = FALSE
    /\ lateFrames = [t \in Threads |-> 0]
    /\ clears = [t \in Threads |-> 0]
    /\ spc = "idle"
    /\ busy = FALSE
    /\ textlen = 0
    /\ thread = 0
    /\ tpc = [t \in Threads |-> "none"]
    /\ ops = 0
    /\ stopped = FALSE
    /\ printed = FALSE
    /\ garbled = FALSE

\* lines 72-77: start(); a busy spinner is left alone
start ==
    /\ spc = "ready"
    /\ ops < MaxOps
    /\ ops' = ops + 1
    /\ IF ~busy
       THEN /\ thread < MaxThreads
            /\ busy' = TRUE
            /\ thread' = thread + 1
            /\ tpc' = [tpc EXCEPT ![thread + 1] = "begin"]
            /\ stopped' = FALSE
            /\ printed' = FALSE
       ELSE UNCHANGED <<busy, thread, tpc, stopped, printed>>
    /\ UNCHANGED <<spc, textlen, garbled, line, lateUpdate, lateFrames, clears,
                   mvars, svars, hvars,
                   kvars, rvars>>

\* lines 79-84: stop() clears the flag and goes on to join the reporter
stop ==
    /\ spc = "ready"
    /\ ops < MaxOps
    /\ ops' = ops + 1
    /\ IF busy
       THEN /\ busy' = FALSE
            /\ spc' = IF thread # 0 THEN "joining" ELSE "ready"
            /\ lateFrames' = [t \in Threads |-> 0]
       ELSE UNCHANGED <<busy, spc, lateFrames>>
    /\ UNCHANGED <<textlen, thread, tpc, stopped, printed, garbled, line, lateUpdate, clears,
                   mvars, svars, hvars,
                   kvars, rvars>>

\* line 84: thread.join(timeout=0.5) returns because the reporter has ended
join_returns ==
    /\ spc = "joining"
    /\ tpc[thread] = "done"
    /\ spc' = "ready"
    /\ stopped' = TRUE
    /\ UNCHANGED <<busy, textlen, thread, tpc, ops, printed, garbled, line, lateUpdate, lateFrames, clears,
                   mvars, svars, hvars,
                   kvars, rvars>>

\* line 84: the half second is over first (the reporter sleeps self.delay, any
\* value the constructor was given, between two looks at the flag)
join_times_out ==
    /\ spc = "joining"
    /\ tpc[thread] # "done"
    /\ spc' = "ready"
    /\ stopped' = TRUE
    /\ UNCHANGED <<busy, textlen, thread, tpc, ops, printed, garbled, line, lateUpdate, lateFrames, clears,
                   mvars, svars, hvars,
                   kvars, rvars>>

\* lines 86-88: update_text(new_text)
update_text(n) ==
    /\ spc = "ready"
    /\ ops < MaxOps
    /\ ops' = ops + 1
    /\ textlen' = n
    /\ lateUpdate' = (lateUpdate \/ ~busy)
    /\ UNCHANGED <<spc, busy, thread, tpc, stopped, printed, garbled, line, lateFrames, clears,
                   mvars, svars, hvars,
                   kvars, rvars>>

\* the caller prints once stop() has returned (the result list, a prompt)
caller_prints ==
    /\ spc = "ready"
    /\ stopped
    /\ ~printed
    /\ printed' = TRUE
    /\ UNCHANGED <<spc, busy, textlen, thread, tpc, ops, stopped, garbled, line, lateUpdate, lateFrames, clears,
                   mvars, svars, hvars,
                   kvars, rvars>>

\* lines 58-59: the colour code is written
task_begin(t) ==
    /\ tpc[t] = "begin"
    /\ tpc' = [tpc EXCEPT ![t] = "check"]
    /\ garbled' = (garbled \/ printed)
    /\ UNCHANGED <<spc, busy, textlen, thread, ops, stopped, printed, line, lateUpdate, lateFrames, clears,
                   mvars, svars, hvars,
                   kvars, rvars>>

\* a loop that never looks at the flag
after_check_unconditional(b) == "write"

\* line 61: while self.busy, into the loop body or past the loop
after_check(b) == IF b THEN "write" ELSE "clear"

\* line 61: while self.busy
task_check(t) ==
    /\ tpc[t] = "check"
    /\ tpc' = [tpc EXCEPT ![t] = after_check(busy)]
    /\ UNCHANGED <<spc, busy, textlen, thread, ops, stopped, printed, garbled, line, lateUpdate, lateFrames, clears,
                   mvars, svars, hvars,
                   kvars, rvars>>

\* lines 63-64: one frame is written and flushed
task_write(t) ==
    /\ tpc[t] = "write"
    /\ tpc' = [tpc EXCEPT ![t] = "sleep"]
    /\ garbled' = (garbled \/ printed)
    /\ line' = IF FrameWidth(textlen) > line THEN FrameWidth(textlen) ELSE line
    /\ lateFrames' = IF busy THEN lateFrames ELSE [lateFrames EXCEPT ![t] = @ + 1]
    /\ UNCHANGED <<spc, busy, textlen, thread, ops, stopped, printed, lateUpdate, clears,
                   mvars, svars, hvars,
                   kvars, rvars>>

\* line 65: time.sleep(self.delay) is over
task_sleep(t) ==
    /\ tpc[t] = "sleep"
    /\ tpc' = [tpc EXCEPT ![t] = "check"]
    /\ UNCHANGED <<spc, busy, textlen, thread, ops, stopped, printed, garbled, line, lateUpdate, lateFrames, clears,
                   mvars, svars, hvars,
                   kvars, rvars>>

\* line 68: the line is cleared
task_clear(t) ==
    /\ tpc[t] = "clear"
    /\ tpc' = [tpc EXCEPT ![t] = "reset"]
    /\ garbled' = (garbled \/ printed)
    /\ line' = IF line <= ClearWidth(textlen) THEN 0 ELSE line
    /\ clears' = [clears EXCEPT ![t] = @ + 1]
    /\ UNCHANGED <<spc, busy, textlen, thread, ops, stopped, printed, lateUpdate, lateFrames,
                   mvars, svars, hvars,
                   kvars, rvars>>

\* lines 69-70: the colour is reset, the stream flushed, the thread ends
task_reset(t) ==
    /\ tpc[t] = "reset"
    /\ tpc' = [tpc EXCEPT ![t] = "done"]
    /\ garbled' = (garbled \/ printed)
    /\ UNCHANGED <<spc, busy, textlen, thread, ops, stopped, printed, line, lateUpdate, lateFrames, clears,
                   mvars, svars, hvars,
                   kvars, rvars>>

(***************************************************************************)
(* Specification of the search                                             *)
(***************************************************************************)
DirectQueries == {Query(f, t, s, <<>>) : f \in {<<>>, <<"a","b","c">>},
                                         t \in {<<>>, <<"t","x","t">>},
                                         s \in QueryKinds}

\* the Spinner objects one search_files call creates: up to two in
\* get_available_drives (lines 157 and 162), then the SearchSpinner (line 51)
SpinnerObjects == 1..3

ScoreIdle ==
    /\ kpc = "idle"
    /\ ent1 = 0
    /\ ent2 = 0
    /\ score1 = [raised |-> FALSE, value |-> 0]
    /\ score2 = [raised |-> FALSE, value |-> 0]

ReporterIdle ==
    /\ rpc = [at |-> "idle", obj |-> 0]
    /\ rhint = "none"
    /\ rbusy = [o \in SpinnerObjects |-> FALSE]
    /\ rtpc = [o \in SpinnerObjects |-> "none"]

MatchIdle ==
    /\ mpc = "idle"
    /\ pat = <<>>
    /\ cand = <<>>
    /\ mres = FALSE
    /\ fres = FALSE

Init ==
    /\ MatchIdle
    /\ SpinnerIdle
    /\ ScoreIdle
    /\ ReporterIdle
    /\ aged = {}
    /\ calls = 1
    /\ first = <<>>
    /\ firstCollected = <<>>
    /\ \/ /\ mode = "search_files"
          /\ query \in Queries
          /\ faults \in Faults
          /\ pc = "sf_start"
          /\ directory = 0
          /\ stack = <<>>
       \/ /\ mode = "direct"
          /\ query \in DirectQueries
          /\ faults \in Faults
          /\ pc = "walk"
          /\ directory \in DirectRoots
          /\ stack = <<directory>>
    /\ drives_to_search = <<>>
    /\ di = 0
    /\ results = <<>>
    /\ root = 0
    /\ dirs = <<>>
    /\ files = <<>>
    /\ idx = 0
    /\ exc = FALSE
    /\ returned = <<>>
    /\ sbusy = FALSE
    /\ slabel = "none"
    /\ drive_results = <<>>
    /\ items_scanned = 0
    /\ examined = {}
    /\ visited = {}
    /\ walked = {}
    /\ raisedAt = {}
    /\ collected = <<>>
    /\ failedAt = {}
    /\ keys = <<>>

Next ==
    \/ SearchFilesStart
    \/ DriveLoop
    \/ DriveLoopEnd
    \/ AfterWalk
    \/ PostProcess
    \/ Finally
    \/ WalkYield
    \/ WalkSkip
    \/ WalkEnd
    \/ FolderStep
    \/ FolderLoopEnd
    \/ Prune
    \/ FileStep
    \/ FileLoopEnd
    \/ Descend
    \/ WalkError
    \/ SearchFilesAgain

Spec == Init /\ [][Next]_vars

(***************************************************************************)
(* search_files, then search_files_with_detailed_progress with the same    *)
(* search_params on the same filesystem at the same time of day            *)
(***************************************************************************)
DetailedInit == Init /\ mode = "search_files"

\* search_files has returned; the other entry point is called next
DetailedCall ==
    /\ mode = "search_files"
    /\ pc = "returned"
    /\ calls = 1
    /\ calls' = calls + 1
    /\ mode' = "detailed"
    /\ first' = returned
    /\ firstCollected' = collected
    /\ pc' = "dp_start"
    /\ drives_to_search' = <<>>
    /\ di' = 0
    /\ directory' = 0
    /\ stack' = <<>>
    /\ root' = 0
    /\ dirs' = <<>>
    /\ files' = <<>>
    /\ idx' = 0
    /\ exc' = FALSE
    /\ returned' = <<>>
    /\ sbusy' = FALSE
    /\ slabel' = "none"
    /\ examined' = {}
    /\ visited' = {}
    /\ walked' = {}
    /\ raisedAt' = {}
    /\ collected' = <<>>
    /\ failedAt' = {}
    /\ keys' = <<>>
    /\ UNCHANGED <<query, faults, aged, results, drive_results, items_scanned, nonsearch>>

DetailedNext ==
    \/ SearchFilesStart
    \/ DriveLoop
    \/ DriveLoopEnd
    \/ AfterWalk
    \/ PostProcess
    \/ Finally
    \/ WalkYield
    \/ WalkSkip
    \/ WalkEnd
    \/ FolderStep
    \/ FolderLoopEnd
    \/ Prune
    \/ FileStep
    \/ FileLoopEnd
    \/ Descend
    \/ WalkError
    \/ DetailedCall
    \/ DetailedStart
    \/ DetailedDriveLoop
    \/ DetailedDriveLoopEnd
    \/ DetailedAfterWalk
    \/ DetailedPostProcess
    \/ DetailedFinally
    \/ CountWalkYield
    \/ CountWalkSkip
    \/ CountWalkEnd
    \/ CountFolderStep
    \/ CountFolderLoopEnd
    \/ CountPrune
    \/ CountFileStep
    \/ CountFileLoopEnd
    \/ CountDescend
    \/ CountWalkError

DetailedSpec == DetailedInit /\ [][DetailedNext]_vars

(***************************************************************************)
(* Harness for the pure matcher: inputs drawn from bounded sets            *)
(***************************************************************************)
MaxPatLen == 4
MaxNameLen == 4
MatchAlphabet == {"a", "b", " "}

StringsUpTo(alphabet, n) == UNION {[1..k -> alphabet] : k \in 0..n}

\* the case variants of an input: as typed, upper-cased, first letter capital
CaseVariants(s) ==
    {s, Upper(s), [i \in 1..Len(s) |-> IF i = 1 THEN UpperChar(s[i]) ELSE s[i]]}

SearchIdle ==
    /\ mode = "idle"
    /\ aged = {}
    /\ calls = 0
    /\ first = <<>>
    /\ firstCollected = <<>>
    /\ query = Query(<<>>, <<>>, "both", <<>>)
    /\ faults = NoFault
    /\ pc = "idle"
    /\ drives_to_search = <<>>
    /\ di = 0
    /\ directory = 0
    /\ results = <<>>
    /\ stack = <<>>
    /\ root = 0
    /\ dirs = <<>>
    /\ files = <<>>
    /\ idx = 0
    /\ exc = FALSE
    /\ returned = <<>>
    /\ sbusy = FALSE
    /\ slabel = "none"
    /\ drive_results = <<>>
    /\ items_scanned = 0
    /\ examined = {}
    /\ visited = {}
    /\ walked = {}
    /\ raisedAt = {}
    /\ collected = <<>>
    /\ failedAt = {}
    /\ keys = <<>>

MatchInit ==
    /\ SearchIdle
    /\ SpinnerIdle
    /\ ScoreIdle
    /\ ReporterIdle
    /\ mpc = "in"
    /\ \E p \in StringsUpTo(MatchAlphabet, MaxPatLen) : pat \in CaseVariants(p)
    /\ \E n \in StringsUpTo(MatchAlphabet, MaxNameLen) : cand \in CaseVariants(n)
    /\ mres = FALSE
    /\ fres = FALSE

ApplyMatch ==
    /\ mpc = "in"
    /\ mpc' = "out"
    /\ mres' = matches_criteria(cand, pat, <<>>, FALSE)
    /\ fres' = fuzzy_match(pat, Lower(cand))
    /\ UNCHANGED <<pat, cand, svars, hvars, pvars, kvars, rvars>>

MatchNext == ApplyMatch

MatchSpec == MatchInit /\ [][MatchNext]_vars

(***************************************************************************)
(* Harness for the scorer: two entries scored against one query            *)
(***************************************************************************)
ScoreEntries == NamedIds \ {RootC, RootD}
\* the entries a scored entry is compared with
ScorePartners == {17, 30, 31, 37, 39, 42, 51}
ScoreQueries == {q \in Queries : q.drive = <<>>}
ScoreFaults == {
    NoFault,
    Fault({}, {}, {}, {51}, {}, {}),            \* denied: is_dir() raises
    Fault({}, {}, {}, {}, {20, 21, 37}, {}),    \* stat fails after is_dir()
    Fault({}, {}, {}, {}, {}, {31, 37, 42})     \* removed before scoring
}

ScoreInit ==
    /\ MatchIdle
    /\ SpinnerIdle
    /\ ReporterIdle
    /\ mode = "idle"
    /\ query \in ScoreQueries
    /\ faults \in ScoreFaults
    /\ aged = {}
    /\ calls = 0
    /\ first = <<>>
    /\ firstCollected = <<>>
    /\ pc = "idle"
    /\ drives_to_search = <<>>
    /\ di = 0
    /\ directory = 0
    /\ results = <<>>
    /\ stack = <<>>
    /\ root = 0
    /\ dirs = <<>>
    /\ files = <<>>
    /\ idx = 0
    /\ exc = FALSE
    /\ returned = <<>>
    /\ sbusy = FALSE
    /\ slabel = "none"
    /\ drive_results = <<>>
    /\ items_scanned = 0
    /\ examined = {}
    /\ visited = {}
    /\ walked = {}
    /\ raisedAt = {}
    /\ collected = <<>>
    /\ failedAt = {}
    /\ keys = <<>>
    /\ kpc = "in"
    /\ ent1 \in ScoreEntries
    /\ ent2 \in ScorePartners
    /\ score1 = [raised |-> FALSE, value |-> 0]
    /\ score2 = [raised |-> FALSE, value |-> 0]

ApplyScore ==
    /\ kpc = "in"
    /\ kpc' = "out"
    /\ score1' = relevance_outcome(ent1, query, faults)
    /\ score2' = relevance_outcome(ent2, query, faults)
    /\ UNCHANGED <<ent1, ent2, mvars, svars, hvars, pvars, rvars>>

ScoreNext == ApplyScore

ScoreSpec == ScoreInit /\ [][ScoreNext]_vars

(***************************************************************************)
(* The Spinner objects of one search_files call and their reporter threads *)
(* Object 1 is the Spinner of the first get_available_drives call, object  *)
(* 2 that of the second call (made when the drive hint names no available  *)
(* drive), object 3 the SearchSpinner.  Each is started, stopped and joined *)
(* by the calling thread in turn; its reporter runs spinner_task.          *)
(***************************************************************************)
\* where the caller goes once stop() of object o has returned
AfterSpinner(o) ==
    IF o = 1 /\ rhint = "missing" THEN [at |-> "start", obj |-> 2]
    ELSE IF o \in {1, 2} THEN [at |-> "start", obj |-> 3]
    ELSE [at |-> "returned", obj |-> 0]

\* Spinner.start() (lines 72-77): __enter__ at line 21, spinner.start() at line 52
reporter_start ==
    /\ rpc.at = "start"
    /\ rbusy' = [rbusy EXCEPT ![rpc.obj] = TRUE]
    /\ rtpc' = [rtpc EXCEPT ![rpc.obj] = "begin"]
    /\ rpc' = [rpc EXCEPT !.at = "stop"]
    /\ UNCHANGED <<rhint, mvars, svars, hvars, pvars, kvars>>

\* Spinner.stop() (lines 79-83): __exit__ at line 28, the finally at line 83
reporter_stop ==
    /\ rpc.at = "stop"
    /\ rbusy' = [rbusy EXCEPT ![rpc.obj] = FALSE]
    /\ rpc' = [rpc EXCEPT !.at = "join"]
    /\ UNCHANGED <<rhint, rtpc, mvars, svars, hvars, pvars, kvars>>

\* line 84: join(timeout=0.5) returns because the reporter has ended
reporter_join_returns ==
    /\ rpc.at = "join"
    /\ rtpc[rpc.obj] = "done"
    /\ rpc' = AfterSpinner(rpc.obj)
    /\ UNCHANGED <<rhint, rbusy, rtpc, mvars, svars, hvars, pvars, kvars>>

\* line 84: the half second is over first
reporter_join_times_out ==
    /\ rpc.at = "join"
    /\ rtpc[rpc.obj] # "done"
    /\ rpc' = AfterSpinner(rpc.obj)
    /\ UNCHANGED <<rhint, rbusy, rtpc, mvars, svars, hvars, pvars, kvars>>

\* spinner_task (lines 56-70), one statement of the reporter of object o
reporter_step(o) ==
    /\ rtpc[o] \notin {"none", "done"}
    /\ rtpc' = [rtpc EXCEPT ![o] =
                    CASE rtpc[o] = "begin" -> "check"
                      [] rtpc[o] = "check" -> IF rbusy[o] THEN "write" ELSE "clear"
                      [] rtpc[o] = "write" -> "sleep"
                      [] rtpc[o] = "sleep" -> "check"
                      [] rtpc[o] = "clear" -> "reset"
                      [] rtpc[o] = "reset" -> "done"]
    /\ UNCHANGED <<rpc, rhint, rbusy, mvars, svars, hvars, pvars, kvars>>

ReporterInit ==
    /\ MatchIdle
    /\ SearchIdle
    /\ SpinnerIdle
    /\ ScoreIdle
    /\ rpc = [at |-> "start", obj |-> 1]
    /\ rhint \in {"none", "found", "missing"}
    /\ rbusy = [o \in SpinnerObjects |-> FALSE]
    /\ rtpc = [o \in SpinnerObjects |-> "none"]

ReporterNext ==
    \/ reporter_start
    \/ reporter_stop
    \/ reporter_join_returns
    \/ reporter_join_times_out
    \/ \E o \in SpinnerObjects : reporter_step(o)

ReporterSpec == ReporterInit /\ [][ReporterNext]_vars

(***************************************************************************)
(* Harness for the windowed similarity: patterns long enough for a window  *)
(* to pass with one position wrong                                         *)
(***************************************************************************)
MaxSimPatLen == 5
MaxSimNameLen == 6
SimAlphabet == {"a", "b"}

SimInit ==
    /\ SearchIdle
    /\ SpinnerIdle
    /\ ScoreIdle
    /\ ReporterIdle
    /\ mpc = "in"
    /\ \E p \in StringsUpTo(SimAlphabet, MaxSimPatLen) : pat \in CaseVariants(p)
    /\ cand \in StringsUpTo(SimAlphabet, MaxSimNameLen)
    /\ mres = FALSE
    /\ fres = FALSE

SimSpec == SimInit /\ [][MatchNext]_vars

(***************************************************************************)
(* Specification of one Spinner and its threads                            *)
(***************************************************************************)
SpinnerInit ==
    /\ MatchIdle
    /\ ScoreIdle
    /\ ReporterIdle
    /\ SearchIdle
    /\ line = 0
    /\ lateUpdate = FALSE
    /\ lateFrames = [t \in Threads |-> 0]
    /\ clears = [t \in Threads |-> 0]
    /\ spc = "ready"
    /\ busy = FALSE
    /\ textlen \in TextLens
    /\ thread = 0
    /\ tpc = [t \in Threads |-> "none"]
    /\ ops = 0
    /\ stopped = FALSE
    /\ printed = FALSE
    /\ garbled = FALSE

SpinnerNext ==
    \/ start
    \/ stop
    \/ join_returns
    \/ join_times_out
    \/ \E n \in TextLens : update_text(n)
    \/ caller_prints
    \/ \E t \in Threads : task_begin(t)
    \/ \E t \in Threads : task_check(t)
    \/ \E t \in Threads : task_write(t)
    \/ \E t \in Threads : task_sleep(t)
    \/ \E t \in Threads : task_clear(t)
    \/ \E t \in Threads : task_reset(t)

SpinnerSpec == SpinnerInit /\ [][SpinnerNext]_vars

\* one statement of spinner_task run by reporter thread t
TaskStep(t) ==
    \/ task_begin(t)
    \/ task_check(t)
    \/ task_write(t)
    \/ task_sleep(t)
    \/ task_clear(t)
    \/ task_reset(t)

\* the scheduler lets every reporter thread that can run take its next step
\* sooner or later; nothing is assumed of the caller
FairSpinnerSpec == SpinnerSpec /\ \A t \in Threads : WF_vars(TaskStep(t))

(***************************************************************************)
(* Properties                                                              *)
(***************************************************************************)
Range(s) == {s[i] : i \in 1..Len(s)}

\* the roots the current call scans
ScanRoots == IF mode = "direct" THEN {directory} ELSE {RootC, RootD}
GeneralScan == mode # "idle" /\ \A s \in ScanRoots : ~InsideAppData(s)

\* the proper ancestors of every entry
AncestorsOf == [id \in NodeIds |-> Ancestors(id)]

\* the drive root an entry lies under
DriveOf == [id \in NodeIds |->
               CHOOSE r \in {RootC, RootD} : r = id \/ r \in AncestorsOf[id]]

\* the query's name and extension tests on an entry, as the walk applies them
QueryMatches(id) ==
    matches_criteria(Node(id).name, FilenamePattern,
                     IF Node(id).isDir THEN <<>> ELSE FileTypeArg, Node(id).isDir)

\* C1: during search_files the accumulator never holds more than
\* MAX_SEARCH_RESULTS (50) entries, and the returned list never more than
\* MAX_DISPLAY_RESULTS (20).
Thm_C1_Caps ==
    mode = "search_files" =>
        /\ Len(results) <= MAX_SEARCH_RESULTS
        /\ Len(returned) <= MAX_DISPLAY_RESULTS

\* a search that stopped at the cap with matching entries left unexamined
Wit_C1_Caps ==
    /\ mode = "search_files"
    /\ pc = "returned"
    /\ Len(collected) = MAX_SEARCH_RESULTS
    /\ Len(returned) = MAX_DISPLAY_RESULTS
    /\ \E id \in BulkFileIds : id \notin examined /\ QueryMatches(id)

\* C2: once stop() has returned, every reporter thread has ended (it has
\* rendered its last frame and cleared the line), and so no reporter write
\* follows a write the caller makes after stop().
Cex_C2_StopBlocks ==
    /\ stopped => \A t \in Threads : tpc[t] \in {"none", "done"}
    /\ ~garbled

\* the names the exclusion rule of a general scan is said to cover
ClaimedExclusionSet ==
    {N_SystemVolumeInformation, N_RecycleBin, N_Windows, N_ProgramFiles,
     N_ProgramFilesX86, N_ProgramData, N_AppData}
ClaimedNarrowSet == {N_SystemVolumeInformation, N_RecycleBin}

\* per scan root: the directories reached through a child directory with an
\* excluded name (below the root, named so or inside one named so) ...
ReachedThroughExcluded ==
    [s \in {RootC, RootD} \cup DirectRoots |->
        {v \in DirIds : \E a \in AncestorsOf[v] \cup {v} :
            Node(a).name \in ClaimedExclusionSet /\ s \in AncestorsOf[a]}]
\* ... and the entries inside such a subtree
InsideExcluded ==
    [s \in {RootC, RootD} \cup DirectRoots |->
        {e \in NodeIds : \E a \in AncestorsOf[e] :
            Node(a).name \in ClaimedExclusionSet /\ s \in AncestorsOf[a]}]

\* C3: in a general scan no directory reached through a child directory with
\* an excluded name is visited, and nothing inside such a subtree is examined,
\* collected or returned.
Thm_C3_ExcludedNeverVisited ==
    GeneralScan =>
        \A s \in ScanRoots :
            /\ visited \cap ReachedThroughExcluded[s] = {}
            /\ examined \cap InsideExcluded[s] = {}
            /\ Range(results) \cap InsideExcluded[s] = {}
            /\ Range(returned) \cap InsideExcluded[s] = {}

\* a finished search below the cap that saw C:\Windows as a child, wanted
\* files matching C:\Windows\abc.txt, and does not hold that file
Wit_C3_ExcludedNeverVisited ==
    /\ mode = "search_files"
    /\ pc = "returned"
    /\ RootC \in visited
    /\ raisedAt = {}
    /\ ~CapReached(Len(collected))
    /\ WantsFiles
    /\ QueryMatches(31)
    /\ 31 \in InsideExcluded[RootC]
    /\ 31 \notin Range(collected)
    /\ returned # <<>>

\* C4: a scan whose root path contains 'appdata' descends into child
\* directories named Windows, Program Files, Program Files (x86), ProgramData
\* or AppData, so that matching files inside them are collected.
Cex_C4_AppDataRootDescends ==
    (/\ mode = "direct"
     /\ pc = "done"
     /\ InsideAppData(directory)
     /\ raisedAt = {}
     /\ ~CapReached(Len(results)))
    => \A v \in visited : \A i \in 1..Len(Node(v).dirs) :
          LET d == Node(v).dirs[i]
          IN  (/\ Node(d).name \in ClaimedExclusionSet \ ClaimedNarrowSet
               /\ d \notin faults.unlistable)
              => /\ d \in visited
                 /\ \A j \in 1..Len(Node(d).files) :
                       LET f == Node(d).files[j]
                       IN  (WantsFiles /\ QueryMatches(f) /\ Exists(f) = "true")
                           => f \in Range(results)

\* C5: the returned list is the first MAX_DISPLAY_RESULTS elements of the
\* accumulator ordered by score, highest first, entries of equal score in the
\* order they were appended.
Thm_C5_StableDescending ==
    (mode = "search_files" /\ pc = "returned") =>
        LET Pos(x) == CHOOSE i \in 1..Len(collected) : collected[i] = x
            Before(x, y) == keys[x] > keys[y] \/ (keys[x] = keys[y] /\ Pos(x) < Pos(y))
        IN  /\ Len(returned) =
                  IF Len(collected) < MAX_DISPLAY_RESULTS
                  THEN Len(collected) ELSE MAX_DISPLAY_RESULTS
            /\ Range(returned) \subseteq Range(collected)
            /\ \A x \in Range(collected) : keys[x] = calculate_relevance(x, query, faults)
            /\ \A i, j \in 1..Len(returned) : i < j => Before(returned[i], returned[j])
            /\ \A x \in Range(collected) \ Range(returned) :
                  \A i \in 1..Len(returned) : Before(returned[i], x)

\* a returned list cut from a longer accumulator, holding both a tie and a
\* difference in score, with an entry overtaking one collected before it
Wit_C5_StableDescending ==
    /\ mode = "search_files"
    /\ pc = "returned"
    /\ Len(collected) > MAX_DISPLAY_RESULTS
    /\ \E i, j \in 1..Len(returned) : i < j /\ keys[returned[i]] = keys[returned[j]]
    /\ \E i, j \in 1..Len(returned) : keys[returned[i]] > keys[returned[j]]
    /\ returned[1] # collected[1]

\* C6: search_files never propagates an exception to its caller.
Cex_C6_NeverRaises == mode = "search_files" => pc # "raised"

\* the entries of directory v the walk tests, given the query kind
Tested(v) ==
    (IF WantsFolders THEN Range(Node(v).dirs) ELSE {})
    \cup (IF WantsFiles THEN Range(Node(v).files) ELSE {})

\* C7: an error raised while one entry is tested skips that entry only: when
\* the walk of the root is over (below the cap), every sibling of the entry
\* and every other directory of the root the pruning leaves has been examined.
Cex_C7_ErrorSkipsOneEntry ==
    (/\ mode = "search_files"
     /\ pc = "sf_after"
     /\ ~CapReached(Len(results)))
    => \A e \in raisedAt :
          directory \in AncestorsOf[e] =>
              /\ Tested(Node(e).parent) \subseteq examined
              /\ \A d \in DirIds :
                    (/\ directory \in AncestorsOf[d]
                     /\ Node(d).parent \in visited
                     /\ d \notin faults.unlistable
                     /\ ~StartsWith(Node(d).name, <<".">>)
                     /\ Node(d).name \notin ClaimedExclusionSet)
                    => d \in visited /\ Tested(d) \subseteq examined

\* C8: when the walk of a root fails, the root keeps what it had collected,
\* and every later root is still walked unless the cap has been reached: after
\* the drive loop either the cap is reached or every root has been walked, and
\* a root that could not be opened has contributed nothing.
Thm_C8_FailedRootSkipped ==
    mode = "search_files" =>
        LET acc == IF pc \in {"sf_finally", "returned", "raised"}
                   THEN collected ELSE results
        IN  /\ pc \in {"sf_post", "sf_finally", "returned", "raised"}
                  => \/ CapReached(Len(acc))
                     \/ \A i \in 1..Len(drives_to_search) :
                            DriveRoot(drives_to_search[i]) \in walked
            /\ \A i \in 1..Len(acc) : DriveOf[acc[i]] \notin faults.unlistable
            /\ \A f \in failedAt : \A i \in 1..Len(acc) :
                  DriveOf[acc[i]] = f.root => i <= f.len

\* the walk of C:\ raised at a child directory after collecting an entry, and
\* D:\ was walked afterwards and its entries returned
Wit_C8_FailedRootSkipped ==
    /\ mode = "search_files"
    /\ pc = "returned"
    /\ \E e \in raisedAt : Node(e).isDir /\ RootC \in AncestorsOf[e]
    /\ RootD \in walked
    /\ \E i \in 1..Len(returned) : DriveOf[returned[i]] = RootC
    /\ \E i \in 1..Len(returned) : DriveOf[returned[i]] = RootD

\* C9: a non-empty pattern whose lower-cased form is a substring of the
\* lower-cased name matches, also when it holds spaces.
Thm_C9_SubstringMatches ==
    (mpc = "out" /\ pat # <<>> /\ Contains(Lower(cand), Lower(pat))) => mres

\* a pattern with a space and a capital, found in the name, was matched
Wit_C9_SubstringMatches ==
    /\ mpc = "out"
    /\ \E i \in 1..Len(pat) : pat[i] = " "
    /\ Len(Split(pat)) >= 2
    /\ Lower(pat) # pat
    /\ Contains(Lower(cand), Lower(pat))
    /\ mres

\* the pattern holds two equal neighbours
HasRun(s) == \E i \in 2..Len(s) : s[i] = s[i - 1]

\* the characters of s that differ from their left neighbour, in order
Collapsed(s) ==
    LET keep == {i \in 1..Len(s) : i = 1 \/ s[i] # s[i - 1]}
        Nth(j) == CHOOSE i \in keep : Cardinality({h \in keep : h < i}) = j - 1
    IN  [j \in 1..Cardinality(keep) |-> s[Nth(j)]]

\* C10: a pattern with a run of repeated characters fuzzy-matches a name that
\* holds the pattern with every run collapsed to one character.
Thm_C10_CollapsedMatches ==
    (mpc = "out" /\ HasRun(pat) /\ Contains(Lower(cand), Collapsed(pat))) => fres

\* matched through the collapsed form only: the pattern itself is not in the name
Wit_C10_CollapsedMatches ==
    /\ mpc = "out"
    /\ HasRun(pat)
    /\ Contains(Lower(cand), Collapsed(pat))
    /\ ~Contains(Lower(cand), Lower(pat))
    /\ \E i \in 3..Len(pat) : pat[i] = pat[i - 1]
    /\ fres

\* positions of the window of N starting at i that agree with P
Agreeing(P, N, i) == Cardinality({j \in 1..Len(P) : N[i + j - 1] = P[j]})

\* some window of N as long as P agrees with P in at least 80% of positions
SomeWindow80(P, N) ==
    \E i \in 1..(Len(N) - Len(P) + 1) : 5 * Agreeing(P, N, i) >= 4 * Len(P)

\* neither the pattern nor its collapsed form is contained in the name
NotContained ==
    /\ ~Contains(Lower(cand), Lower(pat))
    /\ ~Contains(Lower(cand), Collapsed(Lower(pat)))

\* C11: for a pattern of more than 3 characters that matches neither by
\* containment nor by collapsed containment, _fuzzy_match is true exactly when
\* some window of the name of the pattern's length agrees with the pattern in
\* at least 80% of positions; with no such window (or a name shorter than the
\* pattern) it is false.
Thm_C11_WindowThreshold ==
    (mpc = "out" /\ Len(pat) > 3 /\ NotContained) =>
        (fres <=> SomeWindow80(Lower(pat), Lower(cand)))

\* a 5-character pattern accepted through a window with one position wrong
Wit_C11_WindowThreshold ==
    /\ mpc = "out"
    /\ Len(pat) = 5
    /\ NotContained
    /\ \E i \in 1..(Len(cand) - 4) : Agreeing(Lower(pat), Lower(cand), i) = 4
    /\ fres

\* the keywords of a pattern: its maximal runs of characters other than space
KeywordsOf(p) ==
    LET Runs == {ij \in (1..Len(p)) \X (1..Len(p)) :
                    /\ ij[1] <= ij[2]
                    /\ \A k \in ij[1]..ij[2] : p[k] # " "
                    /\ (ij[1] = 1 \/ p[ij[1] - 1] = " ")
                    /\ (ij[2] = Len(p) \/ p[ij[2] + 1] = " ")}
    IN  {SubSeq(p, ij[1], ij[2]) : ij \in Runs}

HasSpace(p) == \E i \in 1..Len(p) : p[i] = " "

\* C12: a pattern of space-separated keywords matches a name exactly when
\* every keyword passes the fuzzy match against the name on its own.
Thm_C12_AllKeywords ==
    (mpc = "out" /\ HasSpace(pat)) =>
        (mres <=> \A w \in KeywordsOf(pat) : fuzzy_match(w, Lower(cand)))

\* two keywords, one found in the name and one not: the name is rejected
Wit_C12_AllKeywords ==
    /\ mpc = "out"
    /\ Cardinality(KeywordsOf(pat)) = 2
    /\ \E w \in KeywordsOf(pat) : fuzzy_match(w, Lower(cand))
    /\ \E w \in KeywordsOf(pat) : ~fuzzy_match(w, Lower(cand))
    /\ ~mres

\* is_dir() and stat() as the scorer sees them for an entry
IsFolderNow(e) == Node(e).isDir /\ e \notin faults.lateGone
StatAnswers(e) == e \notin faults.statFails \cup faults.lateGone

\* the user-profile locations of the priority signal
PriorityLocations ==
    {UserHome \o <<"\\">> \o d :
        d \in {<<"D","e","s","k","t","o","p">>, <<"D","o","c","u","m","e","n","t","s">>,
               <<"D","o","w","n","l","o","a","d","s">>, <<"P","i","c","t","u","r","e","s">>}}

\* the signals of the scoring table, other than the kind bonus, an entry
\* satisfies for the current query
SpecSignals(e) ==
    LET name == Lower(Node(e).name)
        want == Lower(query.filename)
        ext  == Lower(Suffix(Node(e).name))
        age  == DaysOld(e)
    IN  {sig \in {"exact", "partial", "prefix", "extension", "priority", "recent1",
                  "recent7", "recent30", "size_code", "size_document"} :
            CASE sig = "exact"     -> want # <<>> /\ name = want
              [] sig = "partial"   -> want # <<>> /\ Contains(name, want)
              [] sig = "prefix"    -> want # <<>> /\ StartsWith(name, want)
              [] sig = "extension" -> /\ ~IsFolderNow(e)
                                      /\ query.file_type # <<>>
                                      /\ EndsWith(name, <<".">> \o Lower(query.file_type))
              [] sig = "priority"  -> \E a \in AncestorsOf[e] : PathStr(a) \in PriorityLocations
              [] sig = "recent1"   -> StatAnswers(e) /\ age < 1
              [] sig = "recent7"   -> StatAnswers(e) /\ 1 <= age /\ age < 7
              [] sig = "recent30"  -> StatAnswers(e) /\ 7 <= age /\ age < 30
              [] sig = "size_code" -> /\ ~IsFolderNow(e) /\ StatAnswers(e)
                                      /\ ext \in FILE_TYPES_code
                                      /\ 1000 < Node(e).size /\ Node(e).size < 100000
              [] sig = "size_document" ->
                                      /\ ~IsFolderNow(e) /\ StatAnswers(e)
                                      /\ ext \notin FILE_TYPES_code
                                      /\ ext \in FILE_TYPES_documents}

\* the kind bonus in tenths: 15 for a folder when folders are wanted, 10 for a
\* file when files are wanted, 8 for a folder otherwise
AmendedKindBonus(e) ==
    IF query.search_type = "folders" /\ IsFolderNow(e) THEN 150
    ELSE IF query.search_type = "files" /\ ~IsFolderNow(e) THEN 100
    ELSE IF IsFolderNow(e) THEN 80
    ELSE 0

\* the kind bonus in tenths as the scoring table gives it
ClaimedKindBonus(e) ==
    IF query.search_type = "files" /\ ~IsFolderNow(e) THEN 100
    ELSE IF query.search_type = "folders" /\ IsFolderNow(e) THEN 100
    ELSE IF query.search_type = "both" /\ IsFolderNow(e) THEN 80
    ELSE 0

\* C13 as amended: an entry with no other signal scores its kind bonus, which
\* is +15 for a folder when the query kind is Folders, +10 for a file when it
\* is Files, +8 for a folder under any other query kind, and 0 otherwise.
Thm_C13_KindBonus ==
    (kpc = "out" /\ ~score1.raised /\ SpecSignals(ent1) = {}) =>
        score1.value = AmendedKindBonus(ent1)

\* a folder scored for a Folders query with nothing else in its favour
Wit_C13_KindBonus ==
    /\ kpc = "out"
    /\ ~score1.raised
    /\ SpecSignals(ent1) = {}
    /\ query.search_type = "folders"
    /\ IsFolderNow(ent1)
    /\ score1.value = 150

\* C13: the kind bonus is +10 for a file under kind Files, +10 for a folder
\* under kind Folders, +8 for a folder under kind Both, and 0 otherwise.
Cex_C13_KindBonus ==
    (kpc = "out" /\ ~score1.raised /\ SpecSignals(ent1) = {}) =>
        score1.value = ClaimedKindBonus(ent1)

\* the second entry satisfies the signals of the first and exactly one more,
\* and both are of the same kind
OneSignalMore ==
    /\ IsFolderNow(ent1) = IsFolderNow(ent2)
    /\ \E sig \in SpecSignals(ent2) :
            /\ sig \notin SpecSignals(ent1)
            /\ SpecSignals(ent2) = SpecSignals(ent1) \cup {sig}

\* C14: of two entries scored against the same query that satisfy the same
\* signals except that the second satisfies one positive-weight signal more,
\* the second has the strictly greater score.
Cex_C14_Monotonic ==
    (kpc = "out" /\ faults = NoFault /\ OneSignalMore) =>
        score2.value > score1.value

\* what the signals that need no stat call add for an entry, in tenths
SignalsWithoutStat(e) ==
    KindBonus(query.search_type, IsFolderNow(e))
    + NameBonus(Lower(Node(e).name), Lower(query.filename))
    + TypeBonus(Lower(Node(e).name), query.file_type, IsFolderNow(e))
    + PriorityBonus(Lower(PathStr(e)))

\* C15: when the stat call behind the recency and size signals fails, the
\* scorer does not raise and returns the sum of the entry's other signals: the
\* two signals contribute 0.
Thm_C15_FailedStatOmitted ==
    (kpc = "out" /\ ~StatAnswers(ent1)) =>
        /\ ~score1.raised
        /\ score1.value = SignalsWithoutStat(ent1)

\* a recent code file of rewarded size whose stat fails: it still gets a score
Wit_C15_FailedStatOmitted ==
    /\ kpc = "out"
    /\ ent1 \in faults.statFails
    /\ ~Node(ent1).isDir
    /\ Node(ent1).ageDays < 7
    /\ Lower(Suffix(Node(ent1).name)) \in FILE_TYPES_code
    /\ Node(ent1).size > 1000
    /\ ~score1.raised
    /\ score1.value = SignalsWithoutStat(ent1)
    /\ score1.value > 0

\* the enumerated roots the hint names, compared without regard to case
HintedDrives ==
    {i \in 1..Len(AvailableDrives) : Lower(AvailableDrives[i]) = Lower(query.drive)}

\* the roots a query is to be searched on
ExpectedDrives ==
    IF query.drive # <<>> /\ HintedDrives # {}
    THEN <<AvailableDrives[CHOOSE i \in HintedDrives : TRUE]>>
    ELSE AvailableDrives

\* C16: the roots of a query are the single root its hint names, compared
\* case-insensitively with the enumerated roots, and otherwise all enumerated
\* roots in enumeration order; the roots walked are a prefix of them, and all
\* of them when the search ends below the cap.
Thm_C16_RootSet ==
    (mode = "search_files" /\ pc # "sf_start") =>
        /\ drives_to_search = ExpectedDrives
        /\ \E n \in 0..Len(ExpectedDrives) :
                walked = {DriveRoot(ExpectedDrives[i]) : i \in 1..n}
        /\ (pc \in {"returned", "raised"} /\ Len(collected) < MAX_SEARCH_RESULTS) =>
                walked = {DriveRoot(ExpectedDrives[i]) : i \in 1..Len(ExpectedDrives)}

\* a lower-case hint for D: only D:\ was walked, and it held a match
Wit_C16_RootSet ==
    /\ mode = "search_files"
    /\ pc = "returned"
    /\ query.drive = <<"d">>
    /\ walked = {RootD}
    /\ visited # {}
    /\ returned # <<>>

\* the recency tier of an age in days
RecencyTier(days) ==
    IF days < 1 THEN 1 ELSE IF days < 7 THEN 2 ELSE IF days < 30 THEN 3 ELSE 4

\* no collected entry has moved to another recency tier since the first call
NoTierChange ==
    \A e \in Range(collected) : RecencyTier(DaysOld(e)) = RecencyTier(Node(e).ageDays)

\* C17 as amended: a second search_files call with the same query against an
\* unchanged filesystem collects the same entries in the same order, and
\* returns the same list when no collected entry has moved to another recency
\* tier between the two calls.
Thm_C17_Idempotent ==
    (mode = "search_files" /\ pc = "returned" /\ calls = 2) =>
        /\ collected = firstCollected
        /\ NoTierChange => returned = first

\* a second call after an entry aged within its tier: the same list again
Wit_C17_Idempotent ==
    /\ mode = "search_files"
    /\ pc = "returned"
    /\ calls = 2
    /\ aged # {}
    /\ aged \subseteq Range(collected)
    /\ NoTierChange
    /\ Len(returned) >= 2
    /\ returned = first

\* C17: two consecutive search_files calls with the same query against an
\* unchanged filesystem return the same list in the same order.
Cex_C17_Idempotent ==
    (mode = "search_files" /\ pc = "returned" /\ calls = 2) => returned = first

\* the query with its extension in lower case
LowerCasedQuery == [query EXCEPT !.file_type = Lower(@)]

\* C18: the extension is compared case-insensitively in scoring as in the
\* traversal: an entry gets the score it gets under the same query with the
\* extension in lower case.
Cex_C18_ExtensionCase ==
    (kpc = "out" /\ ~score1.raised) =>
        score1.value = calculate_relevance(ent1, LowerCasedQuery, faults)

\* C19: once a started Spinner has been stopped and its reporter threads have
\* ended, no column of the status line holds a character of a frame: the
\* final clear covered the widest frame written, whatever update_text did
\* between start and stop.
Cex_C19_LineCleared ==
    (/\ thread # 0
     /\ ~busy
     /\ spc = "ready"
     /\ ~lateUpdate
     /\ \A t \in Threads : tpc[t] \in {"none", "done"}) =>
        line = 0

\* the reporter threads that have been started and have not ended
AliveReporters == {o \in SpinnerObjects : rtpc[o] \notin {"none", "done"}}

\* C20: during a search_files call at most one reporter thread is alive: the
\* reporter of get_available_drives has ended before the search spinner is
\* started, and the search spinner's reporter has ended when search_files
\* returns.
Cex_C20_OneReporter ==
    /\ Cardinality(AliveReporters) <= 1
    /\ rpc.at = "returned" => AliveReporters = {}

(***************************************************************************)
(* Order of the events of one search_files call                            *)
(***************************************************************************)
Walking == walked # {} /\ pc \notin {"sf_post", "sf_finally", "returned", "raised"}
Scored == keys # <<>>
Left == pc \in {"returned", "raised"}

\* C21 (as amended): in a search_files call the reporter is started before
\* the first root is walked and runs during every walk; the collected
\* entries are scored and sorted only after the last root was walked; the
\* reporter is still running then and is stopped after that, before the call
\* returns or raises.
Thm_C21_ReporterOrder ==
    mode = "search_files" =>
        /\ pc = "sf_start" => walked = {} /\ ~Scored
        /\ Walking => sbusy /\ ~Scored
        /\ Scored => pc \in {"sf_finally", "returned", "raised"}
        /\ pc \in {"sf_post", "sf_finally"} => sbusy
        /\ Left => ~sbusy

\* C21 witness: both roots were walked and the entries are scored and
\* sorted while the reporter is still running.
Wit_C21_SortedWhileRunning ==
    /\ mode = "search_files"
    /\ pc = "sf_finally"
    /\ walked = {RootC, RootD}
    /\ Scored
    /\ sbusy

\* C21 as stated: the reporter is started before the first root is walked
\* and is stopped before any collected entry is scored or the accumulator
\* is sorted.
Cex_C21_StoppedBeforeScoring ==
    mode = "search_files" =>
        /\ Walking => sbusy
        /\ Scored => ~sbusy

(***************************************************************************)
(* The cap ends the search                                                 *)
(***************************************************************************)
InSearch == mode = "search_files" /\ pc \notin {"sf_start", "returned", "raised"}

\* C22: once an append has brought the accumulator to MAX_SEARCH_RESULTS
\* entries, no step of the search tests another entry, visits another
\* directory, walks another root or appends anything.
Thm_C22_CapStopsSearch ==
    [][(InSearch /\ Len(results) >= MAX_SEARCH_RESULTS) =>
          /\ examined' = examined
          /\ visited' = visited
          /\ walked' = walked
          /\ Len(results') = Len(results)]_vars

\* C22 witness: a search that returned after filling the accumulator in
\* C:\bulk, with matching entries of that directory never tested, child
\* directories of it never visited, and the root D: never walked.
Wit_C22_CapStopsSearch ==
    /\ mode = "search_files"
    /\ pc = "returned"
    /\ Len(collected) = MAX_SEARCH_RESULTS
    /\ 14 \in visited
    /\ \E id \in Range(Node(14).dirs) \cup Range(Node(14).files) :
           id \notin examined /\ QueryMatches(id)
    /\ \E id \in Range(Node(14).dirs) : id \notin visited /\ id \notin faults.unlistable
    /\ RootD \notin walked
    /\ \E i \in 1..Len(drives_to_search) : DriveRoot(drives_to_search[i]) = RootD

(***************************************************************************)
(* The query kind                                                          *)
(***************************************************************************)
ChildDirsSeen == UNION {Range(Node(v).dirs) : v \in visited}

\* C23: with kind Folders the returned list holds only directories and with
\* kind Files only files; with an empty name pattern and kind Folders every
\* child directory of a visited directory that exists is collected, unless
\* the cap ended the search, and no file is.
Cex_C23_KindFilter ==
    (mode = "search_files" /\ pc = "returned") =>
        /\ query.search_type = "folders" => \A e \in Range(returned) : Node(e).isDir
        /\ query.search_type = "files" => \A e \in Range(returned) : ~Node(e).isDir
        /\ (query.search_type = "folders" /\ query.filename = <<>>) =>
              /\ \A e \in Range(collected) : Node(e).isDir
              /\ Len(collected) < MAX_SEARCH_RESULTS =>
                    \A d \in ChildDirsSeen : Exists(d) = "true" => d \in Range(collected)

(***************************************************************************)
(* The extension filter                                                    *)
(***************************************************************************)
NameAloneMatches(id) == matches_criteria(Node(id).name, Lower(query.filename), <<>>, TRUE)
HasExtension(id) == EndsWith(Lower(Node(id).name), <<".">> \o Lower(query.file_type))
ExtensionWithFolders ==
    mode = "search_files" /\ query.file_type # <<>> /\ query.search_type \in {"folders", "both"}

\* C24: when the query kind includes folders and an extension is set, every
\* child directory that was tested, exists and whose name matches the name
\* pattern is in the accumulator whatever its name ends with, while every
\* file in the accumulator has a lower-cased name ending with "." and the
\* extension.
Thm_C24_ExtensionFilesOnly ==
    ExtensionWithFolders =>
        /\ \A d \in examined \ Range(results) :
               ~(Node(d).isDir /\ Exists(d) = "true" /\ NameAloneMatches(d))
        /\ \A f \in Range(results) : ~Node(f).isDir => HasExtension(f)

\* C24 witness: with an extension set, a directory whose name holds a dot
\* and does not end with the extension was collected, and a file whose name
\* matches the pattern but not the extension was tested and left out.
Wit_C24_ExtensionFilesOnly ==
    /\ ExtensionWithFolders
    /\ pc = "returned"
    /\ \E d \in Range(collected) :
           /\ Node(d).isDir
           /\ \E i \in 1..Len(Node(d).name) : Node(d).name[i] = "."
           /\ ~HasExtension(d)
    /\ \E f \in examined :
           ~Node(f).isDir /\ NameAloneMatches(f) /\ ~HasExtension(f) /\ f \notin Range(collected)
    /\ \E f \in Range(collected) : ~Node(f).isDir

(***************************************************************************)
(* The directories a general scan recurses into                            *)
(***************************************************************************)
Pruned == mode = "search_files" /\ GeneralScan /\ pc \in {"files", "descend"}
ChildrenOutside(names) == {c \in Range(Node(root).dirs) : Node(c).name \notin names}
Hidden(c) == Node(c).name[1] = "."

Alive(t) == tpc[t] \notin {"none", "done"}

\* C26: once stop() has cleared the running flag of a started Spinner, a
\* reporter thread that is still alive ends, unless start() sets the flag
\* again first; a thread that has ended wrote the clear sequence exactly
\* once, no thread writes it twice, and no thread renders more than one
\* frame after the flag was cleared.
Thm_C26_ReporterEnds ==
    /\ [](\A t \in Threads :
            /\ lateFrames[t] <= 1
            /\ clears[t] <= 1
            /\ tpc[t] = "done" => clears[t] = 1
            /\ clears[t] = 1 => tpc[t] \in {"reset", "done"})
    /\ \A t \in Threads : (Alive(t) /\ ~busy) ~> (tpc[t] = "done" \/ busy)

\* C26 witness: the only reporter thread of a Spinner that was started
\* once has ended after stop(); it rendered one frame after the flag was
\* cleared and wrote the clear sequence once.
Wit_C26_ReporterEnds ==
    /\ spc # "idle"
    /\ thread = 1
    /\ ~busy
    /\ tpc[1] = "done"
    /\ lateFrames[1] = 1
    /\ clears[1] = 1

(***************************************************************************)
(* The reporter threads of one Spinner                                     *)
(***************************************************************************)
InRenderLoop == {t \in Threads : tpc[t] \in {"check", "write", "sleep"}}

\* C27: whatever start(), stop() and update_text() calls one caller makes on
\* a Spinner, at most one of its reporter threads is in the render loop at
\* any time; start() on a running Spinner creates no thread, and stop() on
\* a Spinner that is not running changes nothing.
Cex_C27_OneInLoop ==
    [][/\ Cardinality(InRenderLoop') <= 1
       /\ (start /\ busy) => UNCHANGED <<busy, thread, tpc>>
       /\ (stop /\ ~busy) => UNCHANGED <<busy, spc, thread, tpc>>]_vars

(***************************************************************************)
(* The two entry points compared                                           *)
(***************************************************************************)
BothReturned == mode = "detailed" /\ pc = "returned"

\* C28: search_files_with_detailed_progress returns the same ordered list as
\* search_files did for the same query on the same filesystem, having
\* visited the same directories and collected the same entries.
Cex_C28_SameList ==
    BothReturned =>
        /\ returned = first
        /\ collected = firstCollected

(***************************************************************************)
(* Leaving search_files                                                    *)
(***************************************************************************)
\* C29: every step by which control leaves search_files after the spinner
\* was started, by return or with an exception, is the one that runs
\* spinner.stop(): the running flag was set before it and is cleared when
\* search_files has been left.
Thm_C29_StoppedOnExit ==
    [][(mode = "search_files" /\ ~Left /\ Left') =>
          /\ pc = "sf_finally"
          /\ sbusy
          /\ ~sbusy']_vars

\* C29 witness: search_files was left with an exception raised while the
\* collected entries were scored, after both roots were walked, and the
\* running flag is cleared.
Wit_C29_StoppedOnExit ==
    /\ mode = "search_files"
    /\ pc = "raised"
    /\ exc
    /\ walked = {RootC, RootD}
    /\ collected # <<>>
    /\ ~sbusy

(***************************************************************************)
(* Patterns of four characters                                             *)
(***************************************************************************)
WindowsOf(P, N) == 1..(Len(N) - Len(P) + 1)

\* C30: for a pattern of exactly 4 characters the window similarity step
\* succeeds exactly when some window agrees in all 4 positions, hence only
\* where the pattern is contained in the name, and a 4-character pattern that
\* is not contained, plain or collapsed, does not match; a 5-character
\* pattern with a window agreeing in 4 positions does match.
Thm_C30_FourCharacters ==
    mpc = "out" =>
        /\ Len(pat) = 4 =>
              /\ similarity_match(Lower(pat), Lower(cand))
                    <=> \E i \in WindowsOf(pat, cand) :
                            Agreeing(Lower(pat), Lower(cand), i) = 4
              /\ similarity_match(Lower(pat), Lower(cand))
                    => Contains(Lower(cand), Lower(pat))
              /\ NotContained => ~fres
        /\ (Len(pat) = 5 /\ \E i \in WindowsOf(pat, cand) :
                                Agreeing(Lower(pat), Lower(cand), i) = 4) => fres

\* C30 witness: a 4-character pattern not contained in the name, a window
\* of the name agreeing with it in 3 of its 4 positions, and no match.
Wit_C30_FourCharacters ==
    /\ mpc = "out"
    /\ Len(pat) = 4
    /\ NotContained
    /\ \E i \in WindowsOf(pat, cand) : Agreeing(Lower(pat), Lower(cand), i) = 3
    /\ ~fres

====
